---- MODULE Spec2Model ----
(***************************************************************************)
(* OmegaRTC (src/src/index.ts): the connection registry of the Scratch 3   *)
(* WebRTC extension, the ScratchWebRTC blocks layered on it, and the       *)
(* native engine (RTCPeerConnection / RTCDataChannel / getUserMedia / DOM) *)
(* as far as the registry observes it.                                     *)
(*                                                                         *)
(* A JavaScript Map is a sequence of <<key, value>> pairs in insertion     *)
(* order.  Native objects live in two tables, conns and chans; the         *)
(* registry maps hold their slots.  A slot is free again once its object   *)
(* is closed and nothing in the program can reach it any more, and a new   *)
(* object takes the first free slot.                                       *)
(* Every handler is one operator from a program state S (a record of all   *)
(* program and engine state) to the state after it; an action applies one  *)
(* handler to the current state and commits the result.                    *)
(***************************************************************************)
EXTENDS Integers, Sequences, FiniteSets, TLC

\* ------------------------------------------------------------------ bounds
MaxHandles == 2      \* native connections the program can reach at one time
MaxChans   == 2      \* native data channels the program can reach at one time
MaxCands   == 1      \* ICE candidates the engine discovers per connection
MaxStreams == 1      \* incoming media streams announced in one run
MaxLen == 3       \* characters of a session description's sdp text
MaxList == 2      \* candidates in a list on the wire
MaxSubs == 3      \* callbacks registered with on() in one run
MaxPolls == 2     \* generateIce blocks waiting at one time

Ids     == {"bob", "amy"}
Labels  == {"default", "audio"}
Data    == {"x", "y"}
Modes   == {"data", "voice"}

\* ---------------------------------------------------------- Map (JS) helpers
Has(m, k)  == \E i \in 1..Len(m) : m[i][1] = k
Idx(m, k)  == CHOOSE i \in 1..Len(m) : m[i][1] = k
Get(m, k)  == m[Idx(m, k)][2]
Set(m, k, v) ==
  IF Has(m, k) THEN [m EXCEPT ![Idx(m, k)] = <<k, v>>] ELSE Append(m, <<k, v>>)
Del(m, k)  == SelectSeq(m, LAMBDA e : e[1] # k)
Keys(m)    == [i \in 1..Len(m) |-> m[i][1]]
Values(m)  == [i \in 1..Len(m) |-> m[i][2]]
KeySet(m)  == {m[i][1] : i \in 1..Len(m)}
Range(s)   == {s[i] : i \in 1..Len(s)}

VARIABLES
  dataConnections,     \* Map id -> handle
  dataChannels,        \* Map id -> Map label -> channel
  dataStorage,         \* Map id -> Map label -> payload
  dataIceCandidates,   \* Map id -> sequence of candidates
  dataIceDone,         \* Map id -> BOOLEAN
  voiceConnections,    \* Map id -> handle
  voiceStreams,        \* Map id -> sequence of streams
  voiceIceCandidates,  \* Map id -> sequence of candidates
  voiceIceDone,        \* Map id -> BOOLEAN
  configuration,       \* [iceTransportPolicy, supportsTrickleIce]
  conns,               \* native engine: the RTCPeerConnection objects
  chans,               \* native engine: the RTCDataChannel objects
  mic,                 \* getUserMedia promises not yet settled (handles)
  dom,                 \* document.body: the attached audio elements
  nstreams,            \* streams announced so far
  eventHandlers,       \* Map topic -> the callbacks registered with on()
  polls,               \* until(): the polls waiting for their next timeout
  heard,               \* the callbacks the last step invoked, in order
  seen,                \* what each of them could read when it ran
  tally,               \* how often the counting callbacks have run so far
  op,                  \* the operation or native callback of the last step
  ret,                 \* what it returned to its caller
  fired,               \* the fire(topic, arg) calls it made, in order
  calls,               \* the native calls it made, in order
  raised,              \* whether an exception left it
  far,                 \* the program of the remote peer: its whole state
  wire                 \* what the two callers have handed to each other

vars == <<dataConnections, dataChannels, dataStorage, dataIceCandidates,
          dataIceDone, voiceConnections, voiceStreams, voiceIceCandidates,
          voiceIceDone, configuration, conns, chans, mic, dom, nstreams,
          eventHandlers, polls, heard, seen, tally,
          op, ret, fired, calls, raised, far, wire>>

\* ------------------------------------------------------------ program state
Cur ==
  [dc |-> dataConnections, dch |-> dataChannels, ds |-> dataStorage,
   dic |-> dataIceCandidates, did |-> dataIceDone,
   vc |-> voiceConnections, vs |-> voiceStreams,
   vic |-> voiceIceCandidates, vid |-> voiceIceDone,
   cfg |-> configuration, conns |-> conns, chans |-> chans, mic |-> mic,
   dom |-> dom, nstreams |-> nstreams, eh |-> eventHandlers, polls |-> polls,
   heard |-> <<>>, seen |-> <<>>, tally |-> tally,
   ret |-> <<"void">>, fired |-> <<>>, calls |-> <<>>, raised |-> FALSE]

NoOp == [name |-> "init", id |-> "", label |-> "", mode |-> "", data |-> "",
         flag |-> FALSE, h |-> 0, c |-> 0, pre |-> FALSE]

Op(name) == [NoOp EXCEPT !.name = name]

\* A text is the sequence of the code units of a JavaScript string.  A value
\* is what JSON can carry: a string, a number (here a natural number), null,
\* an object (its members in order) or an array.  k is the key of a value
\* that is a member of an object; s, n and m are the text of a string, the
\* number, and the members or elements.
Null    == [t |-> "null", k |-> <<>>, s |-> <<>>, n |-> 0, m |-> <<>>]
Str(s)  == [Null EXCEPT !.t = "str", !.s = s]
Num(n)  == [Null EXCEPT !.t = "num", !.n = n]
Obj(ms) == [Null EXCEPT !.t = "obj", !.m = ms]
Arr(xs) == [Null EXCEPT !.t = "arr", !.m = xs]
Member(key, x) == [x EXCEPT !.k = key]

\* A candidate as RTCIceCandidate.toJSON() gives it to JSON.stringify.
Candidate(candidate, sdpMid, sdpMLineIndex, usernameFragment) ==
  Obj(<<Member(<<99, 97, 110, 100, 105, 100, 97, 116, 101>>, Str(candidate)),
        Member(<<115, 100, 112, 77, 105, 100>>, sdpMid),
        Member(<<115, 100, 112, 77, 76, 105, 110, 101, 73, 110, 100, 101, 120>>,
               sdpMLineIndex),
        Member(<<117, 115, 101, 114, 110, 97, 109, 101, 70, 114, 97, 103, 109,
                 101, 110, 116>>, usernameFragment)>>)

\* A session description (RTCSessionDescriptionInit) and the part of an
\* async handshake method that is left to run once getUserMedia has settled.
NoDesc  == [type |-> "", sdp |-> <<>>]
NoAfter == [fn |-> "", name |-> "", desc |-> NoDesc, cand |-> Null,
            fail |-> 0]

\* The configuration a new registry starts with (the server list is left
\* out: the registry never reads it).
DefaultConfiguration ==
  [iceTransportPolicy |-> "all", supportsTrickleIce |-> FALSE]

FreeConn == [mode |-> "", id |-> "", closed |-> TRUE, state |-> "closed",
             gather |-> "new", ncand |-> 0, track |-> "none",
             name |-> "", sig |-> "stable", local |-> NoDesc,
             remote |-> NoDesc, added |-> <<>>, after |-> NoAfter,
             cfg |-> DefaultConfiguration]
FreeChan == [conn |-> 0, id |-> "", label |-> "", negotiated |-> FALSE,
             ordered |-> FALSE, state |-> "closed", hooked |-> FALSE,
             buffered |-> FALSE, low |-> FALSE, lost |-> FALSE]

Referenced(S, c) ==
  \E i \in 1..Len(S.dch) : \E j \in 1..Len(S.dch[i][2]) : S.dch[i][2][j][2] = c

\* A closed connection dispatches nothing more: only a microphone request
\* still waiting on it can reach it.  A closed channel dispatches nothing
\* more either: it stays only while a channel map still holds it.  A closing
\* channel without handlers closes unobserved.  The program learns that a
\* buffer has drained only through a promise that waits for it: the buffer
\* of a channel without such a promise drains unobserved.
NormalConn(S, h) ==
  IF ~S.conns[h].closed THEN S.conns[h]
  ELSE IF h \in S.mic
       THEN [FreeConn EXCEPT !.mode = S.conns[h].mode, !.id = S.conns[h].id,
                             !.after = S.conns[h].after]
       ELSE FreeConn

NormalChan(S, c) ==
  LET ch == S.chans[c] IN
  IF ch.state = "closed" \/ (ch.state = "closing" /\ ~ch.hooked)
  THEN IF Referenced(S, c)
       THEN [FreeChan EXCEPT !.id = ch.id, !.label = ch.label]
       ELSE FreeChan
  ELSE [ch EXCEPT !.conn = IF @ # 0 /\ S.conns[@].closed THEN 0 ELSE @,
                   !.buffered = @ /\ ch.low]

Normal(S) ==
  [S EXCEPT !.chans = [c \in 1..MaxChans |-> NormalChan(S, c)],
            !.conns = [h \in 1..MaxHandles |-> NormalConn(S, h)]]

Store(S0, o) ==
  \E T \in {S0} : \E S \in {Normal(T)} :
  /\ dataConnections' = S.dc
  /\ dataChannels' = S.dch
  /\ dataStorage' = S.ds
  /\ dataIceCandidates' = S.dic
  /\ dataIceDone' = S.did
  /\ voiceConnections' = S.vc
  /\ voiceStreams' = S.vs
  /\ voiceIceCandidates' = S.vic
  /\ voiceIceDone' = S.vid
  /\ configuration' = S.cfg
  /\ conns' = S.conns
  /\ chans' = S.chans
  /\ mic' = S.mic
  /\ dom' = S.dom
  /\ nstreams' = S.nstreams
  /\ eventHandlers' = S.eh
  /\ polls' = S.polls
  /\ heard' = S.heard
  /\ seen' = S.seen
  /\ tally' = S.tally
  /\ op' = o
  /\ ret' = S.ret
  /\ fired' = S.fired
  /\ calls' = S.calls
  /\ raised' = S.raised

\* A step of this program alone.
Commit(S0, o) == Store(S0, o) /\ UNCHANGED <<far, wire>>

\* An uncaught exception ends the handler: what follows the throw is skipped.
Then(S, F(_)) == IF S.raised THEN S ELSE F(S)
Throw(S)      == [S EXCEPT !.raised = TRUE, !.ret = <<"void">>]
Return(S, v)  == [S EXCEPT !.ret = v]
Call(S, fn, h, c, s) ==
  [S EXCEPT !.calls = Append(@, [fn |-> fn, h |-> h, c |-> c, s |-> s,
                                 x |-> Null])]
\* A native call that is handed a value.
CallWith(S, fn, h, x) ==
  [S EXCEPT !.calls = Append(@, [fn |-> fn, h |-> h, c |-> 0, s |-> "",
                                 x |-> x])]

\* on that registers a callback once per topic.
onOnce(S, eventName, callback) ==
  LET T == IF ~Has(S.eh, eventName) THEN [S EXCEPT !.eh = Set(@, eventName, <<>>)]
           ELSE S
  IN IF callback \in Range(Get(T.eh, eventName)) THEN T
     ELSE [T EXCEPT !.eh = Set(@, eventName,
                                Append(Get(T.eh, eventName), callback))]

\* --------------------------------------------------------------- EventBus
\* A callback is known by its name; invoking it leaves an entry in heard:
\* which callback, for which topic, with which argument (s a text, n a
\* number), and an entry in seen: the done flags and candidate lists of the
\* data registry as they are when it runs.  A callback does not call back
\* into the registry; the callbacks in Throwing throw, all others return,
\* and those in Counting count their invocations in tally.
Throwing == {"boom"}
Counting == {"count"}

\* on(eventName, callback)
on(S, eventName, callback) ==
  LET T == IF ~Has(S.eh, eventName) THEN [S EXCEPT !.eh = Set(@, eventName, <<>>)]
           ELSE S
  IN [T EXCEPT !.eh = Set(@, eventName, Append(Get(T.eh, eventName), callback))]

\* fire(eventName, ...args): the body of the method.
\* forEach ends at the first callback that throws, and fire with it.
fireEvent(S, eventName, s, n) ==
  IF ~Has(S.eh, eventName) THEN S
  ELSE LET cbs == Get(S.eh, eventName)
           thrown == {i \in 1..Len(cbs) : cbs[i] \in Throwing}
           last == IF thrown = {} THEN Len(cbs)
                   ELSE CHOOSE i \in thrown : \A j \in thrown : i <= j
           T == [S EXCEPT !.heard = @ \o [i \in 1..last |->
                                           [cb |-> cbs[i], topic |-> eventName,
                                            s |-> s, n |-> n]],
                          !.seen = @ \o [i \in 1..last |->
                                          [did |-> S.did, dic |-> S.dic]],
                          !.tally = @ + Cardinality({i \in 1..last :
                                                       cbs[i] \in Counting})]
       IN IF thrown = {} THEN T ELSE Throw(T)

\* The template literal `${id}_kind` of a call site.
Topic(id, kind) == id \o "_" \o kind

\* this.fire(`${id}_kind`, arg): the call is what the registry publishes.
fire(S, id, kind, s, n) ==
  fireEvent([S EXCEPT !.fired = Append(@, [id |-> id, kind |-> kind,
                                           s |-> s, n |-> n])],
            Topic(id, kind), s, n)

\* ----------------------------------------------------------- native engine
\* new RTCPeerConnection(configuration): the constructor reads the
\* dictionary it is given once; cfg is what it read.
NewConn(mode, id, cfg) ==
  [mode |-> mode, id |-> id, closed |-> FALSE, state |-> "new",
   gather |-> "new", ncand |-> 0, track |-> "none",
   name |-> "", sig |-> "stable", local |-> NoDesc,
   remote |-> NoDesc, added |-> <<>>, after |-> NoAfter, cfg |-> cfg]

NewChan(h, id, label, negotiated, ordered) ==
  [conn |-> h, id |-> id, label |-> label, negotiated |-> negotiated,
   ordered |-> ordered, state |-> "connecting", hooked |-> FALSE,
   buffered |-> FALSE, low |-> FALSE, lost |-> FALSE]

\* The slot a newly constructed object takes.
IsFreeConn(S, h) == S.conns[h].mode = ""
IsFreeChan(S, c) == S.chans[c].label = ""
NewConnSlot(S) == CHOOSE h \in 1..MaxHandles :
                    IsFreeConn(S, h) /\ \A j \in 1..(h - 1) : ~IsFreeConn(S, j)
NewChanSlot(S) == CHOOSE c \in 1..MaxChans :
                    IsFreeChan(S, c) /\ \A j \in 1..(c - 1) : ~IsFreeChan(S, j)

\* RTCDataChannel.close(): starts the closing procedure of a channel that is
\* not yet closing; the close event follows later.
chanClose(S, c) ==
  LET T == Call(S, "chan.close", S.chans[c].conn, c, S.chans[c].label) IN
  IF T.chans[c].state \in {"connecting", "open"}
  THEN [T EXCEPT !.chans[c].state = "closing"]
  ELSE T

\* RTCPeerConnection.close(): the connection is closed for good and fires no
\* further event of its own; its channels go down with it (whether their close
\* events are still delivered is up to the engine).
connClose(S, h) ==
  LET T == Call(S, "conn.close", h, 0, "") IN
  [T EXCEPT !.conns[h].closed = TRUE,
            !.conns[h].state = "closed",
            !.chans = [c \in 1..MaxChans |->
                         IF T.chans[c].conn = h
                            /\ T.chans[c].state \in {"connecting", "open"}
                         THEN [T.chans[c] EXCEPT !.state = "closing"]
                         ELSE T.chans[c]]]

\* MediaStreamTrack.stop() on the track of every sender of the connection.
stopTracks(S, h) ==
  IF S.conns[h].track = "live"
  THEN [Call(S, "track.stop", h, 0, "") EXCEPT !.conns[h].track = "stopped"]
  ELSE S

RECURSIVE closeAll(_, _)
closeAll(S, cs) ==
  IF cs = <<>> THEN S ELSE closeAll(chanClose(S, Head(cs)), Tail(cs))

\* getPeers over the connections of both modes.
getPeersAllModes(S) == Keys(S.dc) \o Keys(S.vc)

\* ------------------------------------------------------- OmegaRTC: queries
getPeers(S) == Keys(S.dc)

getConnectedPeers(S) ==
  SelectSeq(Keys(S.dc), LAMBDA id : S.conns[Get(S.dc, id)].state = "connected")

doneGatheringIce(S, id) ==
  IF ~Has(S.dc, id) THEN FALSE ELSE Get(S.did, id)

allIceCandidates(S, id, mode) ==
  CASE mode = 0 -> IF ~Has(S.dc, id) THEN <<>>
                   ELSE IF ~Get(S.did, id) THEN <<>>
                   ELSE Get(S.dic, id)
    [] mode = 1 -> IF ~Has(S.vc, id) THEN <<>>
                   ELSE IF ~Get(S.vid, id) THEN <<>>
                   ELSE Get(S.vic, id)
    [] OTHER -> <<>>

getPeerChannels(S, id) ==
  IF ~Has(S.dch, id) THEN <<>> ELSE Keys(Get(S.dch, id))

isPeerConnected(S, id) ==
  IF ~Has(S.dc, id) THEN FALSE
  ELSE S.conns[Get(S.dc, id)].state = "connected"

doesPeerChannelExist(S, id, label) ==
  IF ~Has(S.dch, id) THEN FALSE ELSE Has(Get(S.dch, id), label)

\* getChannelData: <<"undefined">> stands for JavaScript's undefined.
getChannelData(S, id, label) ==
  IF ~Has(S.ds, id) THEN <<"undefined">>
  ELSE IF ~Has(Get(S.ds, id), label) THEN <<"undefined">>
  ELSE <<"data", Get(Get(S.ds, id), label)>>

\* A call of a query method: the state it leaves and the value it returns.
\* Lists are <<"list", seq>>, booleans <<"bool", b>>.
queryGetPeerChannelsCreates(S, q, id, label, mode) ==
  CASE q = "getPeers" -> Return(S, <<"list", getPeers(S)>>)
    [] q = "getConnectedPeers" -> Return(S, <<"list", getConnectedPeers(S)>>)
    [] q = "getPeerChannels" ->
         IF ~Has(S.dch, id)
         THEN Return([S EXCEPT !.dch = Set(@, id, <<>>)], <<"list", <<>>>>)
         ELSE Return(S, <<"list", getPeerChannels(S, id)>>)
    [] q = "isPeerConnected" -> Return(S, <<"bool", isPeerConnected(S, id)>>)
    [] q = "doesPeerChannelExist" ->
         Return(S, <<"bool", doesPeerChannelExist(S, id, label)>>)
    [] q = "doneGatheringIce" -> Return(S, <<"bool", doneGatheringIce(S, id)>>)
    [] q = "allIceCandidates" ->
         Return(S, <<"list", allIceCandidates(S, id, mode)>>)

query(S, q, id, label, mode) ==
  CASE q = "getPeers" -> Return(S, <<"list", getPeers(S)>>)
    [] q = "getConnectedPeers" -> Return(S, <<"list", getConnectedPeers(S)>>)
    [] q = "getPeerChannels" -> Return(S, <<"list", getPeerChannels(S, id)>>)
    [] q = "isPeerConnected" -> Return(S, <<"bool", isPeerConnected(S, id)>>)
    [] q = "doesPeerChannelExist" ->
         Return(S, <<"bool", doesPeerChannelExist(S, id, label)>>)
    [] q = "doneGatheringIce" -> Return(S, <<"bool", doneGatheringIce(S, id)>>)
    [] q = "allIceCandidates" ->
         Return(S, <<"list", allIceCandidates(S, id, mode)>>)

\* closeDataConnection closing the connection first and its channels after.
closeDataConnectionConnFirst(S, id) ==
  LET S1 == IF Has(S.dc, id) THEN connClose(S, Get(S.dc, id)) ELSE S
      S2 == IF Has(S1.dch, id) THEN closeAll(S1, Values(Get(S1.dch, id))) ELSE S1
  IN [S2 EXCEPT !.dc = Del(@, id), !.dch = Del(@, id), !.ds = Del(@, id),
                !.dic = Del(@, id), !.did = Del(@, id)]

\* closeDataConnection that clears the payload cache of every key.
closeDataConnectionClearsCaches(S, id) ==
  LET S1 == IF Has(S.dch, id) THEN closeAll(S, Values(Get(S.dch, id))) ELSE S
      S2 == IF Has(S1.dc, id) THEN connClose(S1, Get(S1.dc, id)) ELSE S1
  IN [S2 EXCEPT !.dc = Del(@, id), !.dch = Del(@, id), !.ds = <<>>,
                !.dic = Del(@, id), !.did = Del(@, id)]

\* ------------------------------------------------ OmegaRTC: data registry
\* closeDataConnection(id)
closeDataConnection(S, id) ==
  LET S1 == IF Has(S.dch, id) THEN closeAll(S, Values(Get(S.dch, id))) ELSE S
      S2 == IF Has(S1.dc, id) THEN connClose(S1, Get(S1.dc, id)) ELSE S1
  IN [S2 EXCEPT !.dc = Del(@, id), !.dch = Del(@, id), !.ds = Del(@, id),
                !.dic = Del(@, id), !.did = Del(@, id)]

\* handleDataChannel that binds the handlers and forgets to store the channel.
handleDataChannelUnstored(S, c, label, id) ==
  LET S1 == [S EXCEPT !.chans[c].hooked = TRUE] IN
  IF ~Has(S1.dch, id) THEN Throw(S1) ELSE S1

\* handleDataChannel(chan, label, id): binds the three channel handlers and
\* stores the channel under its label.  dataChannels.get(id) of an absent id
\* is undefined, and .set on it a TypeError.
handleDataChannel(S, c, label, id) ==
  LET S1 == [S EXCEPT !.chans[c].hooked = TRUE] IN
  IF ~Has(S1.dch, id) THEN Throw(S1)
  ELSE [S1 EXCEPT !.dch = Set(@, id, Set(Get(S1.dch, id), label, c))]

\* getDataConnection(id)
getDataConnection(S, id) ==
  IF Has(S.dc, id) THEN Return(S, <<"conn", Get(S.dc, id)>>)
  ELSE
    LET h  == NewConnSlot(S)
        c  == NewChanSlot(S)
        S1 == [S EXCEPT
                 !.conns[h] = NewConn("data", id, S.cfg),
                 !.dc  = Set(@, id, h),
                 !.dic = Set(@, id, <<>>),
                 !.did = Set(@, id, FALSE),
                 !.ds  = Set(@, id, <<>>),
                 !.dch = Set(@, id, <<>>),
                 !.chans[c] = NewChan(h, id, "default", TRUE, TRUE)]
        S2 == Call(Call(S1, "new", h, 0, ""), "createDataChannel", h, c, "default")
        S3 == handleDataChannel(S2, c, "default", id)
    IN Then(S3, LAMBDA T : Return(T, <<"conn", h>>))

\* closeChannel that leaves the cached payload of the channel behind.
closeChannelKeepsPayload(S, id, label) ==
  IF ~Has(S.dch, id) THEN S
  ELSE IF ~Has(Get(S.dch, id), label) THEN S
  ELSE
    LET c  == Get(Get(S.dch, id), label)
        S1 == chanClose(S, c)
    IN [S1 EXCEPT !.dch = Set(@, id, Del(Get(S1.dch, id), label))]

\* closeChannel(id, label)
closeChannel(S, id, label) ==
  IF ~Has(S.dch, id) THEN S
  ELSE IF ~Has(Get(S.dch, id), label) THEN S
  ELSE
    LET c  == Get(Get(S.dch, id), label)
        S1 == chanClose(S, c)
        S2 == [S1 EXCEPT !.dch = Set(@, id, Del(Get(S1.dch, id), label))]
    IN IF ~Has(S2.ds, id) THEN Throw(S2)
       ELSE [S2 EXCEPT !.ds = Set(@, id, Del(Get(S2.ds, id), label))]

\* createDataChannel(id, label, ordered): the new channel is returned to the
\* caller; it is neither stored in dataChannels nor given handlers.
createDataChannel(S, id, label, ordered) ==
  IF ~Has(S.dc, id) THEN S
  ELSE
    LET h  == Get(S.dc, id)
        c  == NewChanSlot(S)
        S1 == [S EXCEPT !.chans[c] = NewChan(h, id, label, FALSE, ordered)]
    IN Return(Call(S1, "createDataChannel", h, c, label), <<"chan", c>>)

\* RTCDataChannel.send(data) on an open channel: the data is queued, so
\* bufferedAmount grows by its length.
chanSend(S, c, data) ==
  [Call(S, "send", S.chans[c].conn, c, data)
     EXCEPT !.chans[c].buffered = @ \/ data # ""]

\* new Promise(resolve => { chan.onbufferedamountlow = () => resolve() }):
\* the channel has one handler, and the new one takes the place of the one
\* before it.  `low` says that the promise of the current handler is
\* pending, `lost` that a pending promise has no handler any more.
awaitLow(S, c) ==
  [S EXCEPT !.chans[c].lost = @ \/ S.chans[c].low, !.chans[c].low = TRUE]

\* chan.onbufferedamountlow: resolve() of the promise the handler belongs
\* to; on a channel without handler the event does nothing.
onbufferedamountlow(S, c) == [S EXCEPT !.chans[c].low = FALSE]

\* sendData that creates the connection it does not find (get-or-create
\* instead of a lookup) and then returns.
sendDataCreates(S, id, label, data, wait) ==
  IF ~Has(S.dch, id)
  THEN IF (\E k \in 1..MaxHandles : IsFreeConn(S, k))
          /\ (\E k \in 1..MaxChans : IsFreeChan(S, k))
       THEN [getDataConnection(S, id) EXCEPT !.ret = <<"void">>]
       ELSE S
  ELSE IF ~Has(Get(S.dch, id), label) THEN S
  ELSE
    LET c == Get(Get(S.dch, id), label) IN
    IF S.chans[c].state # "open" THEN Throw(S)
    ELSE LET S1 == chanSend(S, c, data)
         IN IF wait THEN Return(awaitLow(S1, c), <<"promise", c>>) ELSE S1

\* sendData(id, label, data, wait): RTCDataChannel.send throws unless the
\* channel is open.
sendData(S, id, label, data, wait) ==
  IF ~Has(S.dch, id) THEN S
  ELSE IF ~Has(Get(S.dch, id), label) THEN S
  ELSE
    LET c == Get(Get(S.dch, id), label) IN
    IF S.chans[c].state # "open" THEN Throw(S)
    ELSE LET S1 == chanSend(S, c, data)
         IN IF wait THEN Return(awaitLow(S1, c), <<"promise", c>>) ELSE S1

\* chan.onmessage that caches the payload and publishes nothing.
onmessageSilent(S, c, id, label, data) ==
  IF ~Has(S.ds, id) THEN Throw(S)
  ELSE [S EXCEPT !.ds = Set(@, id, Set(Get(S.ds, id), label, data))]

\* chan.onmessage that keeps the payload already cached for the label.
onmessageKeepsFirst(S, c, id, label, data) ==
  IF ~Has(S.ds, id) THEN Throw(S)
  ELSE fire(IF Has(Get(S.ds, id), label) THEN S
            ELSE [S EXCEPT !.ds = Set(@, id, Set(Get(S.ds, id), label, data))],
            id, "message", data, 0)

\* ------------------------------------------------ native callbacks (data)
\* chan.onmessage
onmessage(S, c, id, label, data) ==
  IF ~Has(S.ds, id) THEN Throw(S)
  ELSE fire([S EXCEPT !.ds = Set(@, id, Set(Get(S.ds, id), label, data))],
            id, "message", data, 0)

\* chan.onopen
onopen(S, id, label) == fire(S, id, "channel-open", label, 0)

\* chan.onclose without the branch for the default channel.
oncloseAnyLabel(S, id, label) == fire(S, id, "channel-close", label, 0)

\* chan.onclose
onclose(S, id, label) ==
  Then(fire(S, id, "channel-close", label, 0), LAMBDA T :
       IF label = "default"
       THEN fire(closeDataConnection(T, id), id, "closed", "", 0)
       ELSE T)

\* conn.ondatachannel
ondatachannel(S, c, id) == handleDataChannel(S, c, S.chans[c].label, id)

\* conn.onicecandidate of a data connection with the `break` of the
\* 'gathering' case missing: the case falls through into 'complete'.
onicecandidateDataFallthrough(S, h, id, cand) ==
  LET S1 == IF cand # 0
            THEN IF ~Has(S.dic, id) THEN Throw(S)
                 ELSE [S EXCEPT !.dic = Set(@, id, Append(Get(S.dic, id), cand))]
            ELSE S
  IN Then(S1, LAMBDA T :
       CASE T.conns[h].gather = "gathering" ->
              LET T0 == IF T.cfg.supportsTrickleIce
                        THEN fire(T, id, "ice", "", cand) ELSE T
                  T1 == fire(T0, id, "ice-done", "", cand)
              IN [T1 EXCEPT !.did = Set(@, id, TRUE)]
         [] T.conns[h].gather = "complete" ->
              LET T1 == fire(T, id, "ice-done", "", cand)
              IN [T1 EXCEPT !.did = Set(@, id, TRUE)]
         [] OTHER -> T)

\* conn.onicecandidate of a data connection; cand = 0 is the null candidate
\* that ends gathering.
onicecandidateData(S, h, id, cand) ==
  LET S1 == IF cand # 0
            THEN IF ~Has(S.dic, id) THEN Throw(S)
                 ELSE [S EXCEPT !.dic = Set(@, id, Append(Get(S.dic, id), cand))]
            ELSE S
  IN Then(S1, LAMBDA T :
       CASE T.conns[h].gather = "gathering" ->
              IF T.cfg.supportsTrickleIce THEN fire(T, id, "ice", "", cand) ELSE T
         [] T.conns[h].gather = "complete" ->
              Then(fire(T, id, "ice-done", "", cand),
                   LAMBDA U : [U EXCEPT !.did = Set(@, id, TRUE)])
         [] OTHER -> T)

\* conn.onconnectionstatechange of a data connection
onconnectionstatechangeData(S, h, id) ==
  CASE S.conns[h].state = "connected" -> fire(S, id, "connected", "", 0)
    [] S.conns[h].state \in {"closed", "failed"} ->
         fire(closeDataConnection(S, id), id, "closed", "", 0)
    [] OTHER -> S

\* ----------------------------------------------- OmegaRTC: voice registry
\* document.getElementById(eid): the first attached element with that id.
getElementById(S, eid) ==
  IF \E i \in 1..Len(S.dom) : S.dom[i].eid = eid
  THEN CHOOSE i \in 1..Len(S.dom) :
         /\ S.dom[i].eid = eid
         /\ \A j \in 1..(i - 1) : S.dom[j].eid # eid
  ELSE 0

removeChild(S, i) ==
  [S EXCEPT !.dom = [j \in 1..(Len(S.dom) - 1) |->
                       IF j < i THEN S.dom[j] ELSE S.dom[j + 1]]]

RECURSIVE removeAudio(_, _, _, _)
removeAudio(S, id, n, len) ==
  IF n >= len THEN S
  ELSE LET i == getElementById(S, <<"audio", n, id>>)
       IN removeAudio(IF i # 0 THEN removeChild(S, i) ELSE S, id, n + 1, len)

\* closeVoiceConnection without the `if (conn)` guard: conn.getSenders() of
\* undefined is a TypeError.
closeVoiceConnectionUnguarded(S, id) ==
  IF ~Has(S.vc, id) THEN Throw(S)
  ELSE
    LET S1 == connClose(stopTracks(S, Get(S.vc, id)), Get(S.vc, id))
        S2 == IF Has(S1.vs, id)
              THEN removeAudio(S1, id, 0, Len(Get(S1.vs, id)))
              ELSE S1
    IN [S2 EXCEPT !.vc = Del(@, id), !.vic = Del(@, id), !.vs = Del(@, id),
                  !.vid = Del(@, id)]

\* closeVoiceConnection that leaves the stream list of the id behind.
closeVoiceConnectionKeepsStreams(S, id) ==
  LET S1 == IF Has(S.vc, id)
            THEN connClose(stopTracks(S, Get(S.vc, id)), Get(S.vc, id))
            ELSE S
      S2 == IF Has(S1.vs, id)
            THEN removeAudio(S1, id, 0, Len(Get(S1.vs, id)))
            ELSE S1
  IN [S2 EXCEPT !.vc = Del(@, id), !.vic = Del(@, id), !.vid = Del(@, id)]

\* closeVoiceConnection(id)
closeVoiceConnection(S, id) ==
  LET S1 == IF Has(S.vc, id)
            THEN connClose(stopTracks(S, Get(S.vc, id)), Get(S.vc, id))
            ELSE S
      S2 == IF Has(S1.vs, id)
            THEN removeAudio(S1, id, 0, Len(Get(S1.vs, id)))
            ELSE S1
  IN [S2 EXCEPT !.vc = Del(@, id), !.vic = Del(@, id), !.vs = Del(@, id),
                !.vid = Del(@, id)]

\* getVoiceConnection without the has-check, wherever the engine can still
\* construct a connection.
getVoiceConnectionAnew(S, id, setup) ==
  IF Has(S.vc, id) /\ ~(\E k \in 1..MaxHandles : IsFreeConn(S, k))
  THEN Return(S, <<"conn", Get(S.vc, id)>>)
  ELSE
    LET h  == NewConnSlot(S)
        S1 == [S EXCEPT
                 !.conns[h] = NewConn("voice", id, S.cfg),
                 !.vc  = Set(@, id, h),
                 !.vic = Set(@, id, <<>>),
                 !.vid = Set(@, id, FALSE),
                 !.vs  = Set(@, id, <<>>)]
        S2 == Call(S1, "new", h, 0, "")
    IN IF setup
       THEN Return([Call(S2, "getUserMedia", h, 0, "") EXCEPT !.mic = @ \cup {h}],
                   <<"pending", h>>)
       ELSE Return(S2, <<"conn", h>>)

\* getVoiceConnection(id, setup) up to its first suspension: either it
\* returns, or it is left waiting for getUserMedia (setupVoiceConnection).
getVoiceConnection(S, id, setup) ==
  IF Has(S.vc, id) THEN Return(S, <<"conn", Get(S.vc, id)>>)
  ELSE
    LET h  == NewConnSlot(S)
        S1 == [S EXCEPT
                 !.conns[h] = NewConn("voice", id, S.cfg),
                 !.vc  = Set(@, id, h),
                 !.vic = Set(@, id, <<>>),
                 !.vid = Set(@, id, FALSE),
                 !.vs  = Set(@, id, <<>>)]
        S2 == Call(S1, "new", h, 0, "")
    IN IF setup
       THEN Return([Call(S2, "getUserMedia", h, 0, "") EXCEPT !.mic = @ \cup {h}],
                   <<"pending", h>>)
       ELSE Return(S2, <<"conn", h>>)

\* setupVoiceConnection(id) resumed with the microphone stream: addTrack on
\* the connection read when the setup began.  addTrack on a closed connection
\* throws, which the promise chain routes to the same catch as a denial.
\* After either outcome getVoiceConnection returns that connection.
setupVoiceConnectionDenied(S, h, id) ==
  Return(closeVoiceConnection([S EXCEPT !.mic = @ \ {h}], id), <<"conn", h>>)

setupVoiceConnectionGranted(S, h, id) ==
  IF S.conns[h].closed THEN setupVoiceConnectionDenied(S, h, id)
  ELSE Return([Call(S, "addTrack", h, 0, "") EXCEPT !.mic = @ \ {h},
                                                    !.conns[h].track = "live"],
              <<"conn", h>>)

\* conn.onicecandidate of a voice connection
onicecandidateVoice(S, h, id, cand) ==
  LET S1 == IF cand # 0
            THEN IF ~Has(S.vic, id) THEN Throw(S)
                 ELSE [S EXCEPT !.vic = Set(@, id, Append(Get(S.vic, id), cand))]
            ELSE S
  IN Then(S1, LAMBDA T :
       IF T.conns[h].gather = "complete"
       THEN [T EXCEPT !.vid = Set(@, id, TRUE)] ELSE T)

\* The voice handler publishing {id}_connected as the data handler does.
onconnectionstatechangeVoiceFires(S, h, id) ==
  CASE S.conns[h].state = "connected" -> fire(S, id, "connected", "", 0)
    [] S.conns[h].state \in {"closed", "failed"} -> closeVoiceConnection(S, id)
    [] OTHER -> S

\* conn.onconnectionstatechange of a voice connection
onconnectionstatechangeVoice(S, h, id) ==
  IF S.conns[h].state \in {"closed", "failed"}
  THEN closeVoiceConnection(S, id) ELSE S

\* conn.ontrack with n incoming streams.  document.createElement('audio',
\* options) takes element-creation options, not attributes: the element gets
\* no id.
RECURSIVE ontrack(_, _, _, _)
ontrack(S, id, n, len) ==
  IF n >= len THEN S
  ELSE IF ~Has(S.vs, id) THEN Throw(S)
  ELSE LET k == S.nstreams + 1
       IN ontrack([S EXCEPT !.vs = Set(@, id, Append(Get(S.vs, id), k)),
                            !.nstreams = k,
                            !.dom = Append(@, [eid |-> <<>>, stream |-> k])],
                  id, n + 1, len)

\* getConnectionObject(id, mode, setup); setup = "undefined" when omitted
getConnectionObject(S, id, mode, setup) ==
  CASE mode = 0 -> getDataConnection(S, id)
    [] mode = 1 -> IF setup = "undefined" THEN Throw(S)
                   ELSE getVoiceConnection(S, id, setup = "true")
    [] OTHER -> Throw(S)

\* ------------------------------------------- native engine: the handshake
\* Each of these is a promise of the RTCPeerConnection.  It rejects on a
\* closed connection and in a signaling state that does not allow the step;
\* `rej` is a rejection for a reason of the engine's own (a description it
\* cannot parse, a failure of the platform).  A description is named after
\* the connection that produced it.
connCreateOffer(S, h, rej) ==
  LET T == Call(S, "createOffer", h, 0, "") IN
  IF rej \/ T.conns[h].closed THEN Throw(T)
  ELSE Return(T, <<"desc", [type |-> "offer", sdp |-> <<T.conns[h].id, h>>]>>)

connCreateAnswer(S, h, rej) ==
  LET T == Call(S, "createAnswer", h, 0, "") IN
  IF rej \/ T.conns[h].closed \/ T.conns[h].sig # "have-remote-offer"
  THEN Throw(T)
  ELSE Return(T, <<"desc", [type |-> "answer", sdp |-> <<T.conns[h].id, h>>]>>)

connSetLocalDescription(S, h, d, rej) ==
  LET T == Call(S, "setLocalDescription", h, 0, d.type) IN
  CASE rej \/ T.conns[h].closed -> Throw(T)
    [] d.type = "offer" /\ T.conns[h].sig \in {"stable", "have-local-offer"} ->
         [T EXCEPT !.conns[h].sig = "have-local-offer", !.conns[h].local = d]
    [] d.type = "answer" /\ T.conns[h].sig = "have-remote-offer" ->
         [T EXCEPT !.conns[h].sig = "stable", !.conns[h].local = d]
    [] OTHER -> Throw(T)

\* A remote offer that meets a pending local offer rolls the local one back.
connSetRemoteDescription(S, h, d, rej) ==
  LET T == Call(S, "setRemoteDescription", h, 0, d.type) IN
  CASE rej \/ T.conns[h].closed -> Throw(T)
    [] d.type = "offer" /\ T.conns[h].sig \in {"stable", "have-remote-offer"} ->
         [T EXCEPT !.conns[h].sig = "have-remote-offer", !.conns[h].remote = d]
    [] d.type = "offer" /\ T.conns[h].sig = "have-local-offer" ->
         [T EXCEPT !.conns[h].sig = "have-remote-offer", !.conns[h].remote = d,
                   !.conns[h].local = NoDesc]
    [] d.type = "answer" /\ T.conns[h].sig = "have-local-offer" ->
         [T EXCEPT !.conns[h].sig = "stable", !.conns[h].remote = d]
    [] OTHER -> Throw(T)

\* addIceCandidate needs a remote description to attach the candidate to.
connAddIceCandidate(S, h, cand, rej) ==
  LET T == CallWith(S, "addIceCandidate", h, cand) IN
  IF rej \/ T.conns[h].closed \/ T.conns[h].remote = NoDesc THEN Throw(T)
  ELSE [T EXCEPT !.conns[h].added = Append(@, cand)]

\* ------------------------------------------------- OmegaRTC: the handshake
\* catch (error) { console.error(...) }: the method ends returning nothing.
Catch(S) == IF S.raised THEN [S EXCEPT !.raised = FALSE, !.ret = <<"void">>]
            ELSE S

\* An async method whose `await getConnectionObject` is left waiting for
\* getUserMedia: the rest of its body runs when that promise has settled.
Suspend(S, a) ==
  Return([S EXCEPT !.conns[S.ret[2]].after = a], <<"pending", S.ret[2]>>)

\* createOffer after `await getConnectionObject`; `fail` is the number of
\* the native step the engine rejects, 0 for none.
createOfferRest(S, h, name, fail) ==
  LET S1 == [S EXCEPT !.conns[h].name = name]
      S2 == connCreateOffer(S1, h, fail = 1)
  IN Then(S2, LAMBDA T :
       Then(connSetLocalDescription(T, h, T.ret[2], fail = 2),
            LAMBDA U : Return(U, T.ret)))

\* createOffer(id, name, mode, setup)
createOffer(S, id, name, mode, setup, fail) ==
  LET S1 == getConnectionObject(S, id, mode, setup) IN
  CASE S1.raised -> Catch(S1)
    [] S1.ret[1] = "pending" ->
         Suspend(S1, [NoAfter EXCEPT !.fn = "createOffer", !.name = name,
                                     !.fail = fail])
    [] OTHER -> Catch(createOfferRest(S1, S1.ret[2], name, fail))

\* createAnswer that hands the answer back without setLocalDescription.
createAnswerRestKeepsAnswer(S, h, name, offer, fail) ==
  LET S1 == [S EXCEPT !.conns[h].name = name]
      S2 == connSetRemoteDescription(S1, h, offer, fail = 1)
  IN Then(S2, LAMBDA T :
       Then(connCreateAnswer(T, h, fail = 2), LAMBDA U : Return(U, U.ret)))

\* createAnswer after `await getConnectionObject`
createAnswerRest(S, h, name, offer, fail) ==
  LET S1 == [S EXCEPT !.conns[h].name = name]
      S2 == connSetRemoteDescription(S1, h, offer, fail = 1)
  IN Then(S2, LAMBDA T :
       Then(connCreateAnswer(T, h, fail = 2), LAMBDA U :
         Then(connSetLocalDescription(U, h, U.ret[2], fail = 3),
              LAMBDA V : Return(V, U.ret))))

\* createAnswer(id, name, mode, offer, setup)
createAnswer(S, id, name, mode, offer, setup, fail) ==
  LET S1 == getConnectionObject(S, id, mode, setup) IN
  CASE S1.raised -> Catch(S1)
    [] S1.ret[1] = "pending" ->
         Suspend(S1, [NoAfter EXCEPT !.fn = "createAnswer", !.name = name,
                                     !.desc = offer, !.fail = fail])
    [] OTHER -> Catch(createAnswerRest(S1, S1.ret[2], name, offer, fail))

\* handleAnswer without the try/catch around its body.
handleAnswerUncaught(S, id, mode, answer, fail) ==
  LET S1 == getConnectionObject(S, id, mode, "undefined") IN
  IF S1.raised THEN S1
  ELSE Return(connSetRemoteDescription(S1, S1.ret[2], answer, fail = 1),
              <<"void">>)

\* handleAnswer(id, mode, answer): getConnectionObject is called without
\* the setup flag, so in voice mode it throws before anything is looked up.
handleAnswer(S, id, mode, answer, fail) ==
  LET S1 == getConnectionObject(S, id, mode, "undefined") IN
  IF S1.raised THEN Catch(S1)
  ELSE Catch(Return(connSetRemoteDescription(S1, S1.ret[2], answer, fail = 1),
                    <<"void">>))

\* handleIceCandidate after `await getConnectionObject`
handleIceCandidateRest(S, h, cand, fail) ==
  Catch(Return(connAddIceCandidate(S, h, cand, fail = 1), <<"void">>))

\* handleIceCandidate(id, mode, candidate, setup)
handleIceCandidate(S, id, mode, cand, setup, fail) ==
  LET S1 == getConnectionObject(S, id, mode, setup) IN
  CASE S1.raised -> Catch(S1)
    [] S1.ret[1] = "pending" ->
         Suspend(S1, [NoAfter EXCEPT !.fn = "handleIceCandidate",
                                     !.cand = cand, !.fail = fail])
    [] OTHER -> handleIceCandidateRest(S1, S1.ret[2], cand, fail)

\* The caller that waited for getUserMedia goes on with the connection it
\* was given, open or closed.
resume(S, h) ==
  LET a == S.conns[h].after
      T == [S EXCEPT !.conns[h].after = NoAfter]
  IN CASE a.fn = "createOffer" -> Catch(createOfferRest(T, h, a.name, a.fail))
       [] a.fn = "createAnswer" ->
            Catch(createAnswerRest(T, h, a.name, a.desc, a.fail))
       [] a.fn = "handleIceCandidate" ->
            handleIceCandidateRest(T, h, a.cand, a.fail)
       [] OTHER -> S

\* relayOnly(mode), supportsTrickeIce(mode)
relayOnly(S, mode) ==
  [S EXCEPT !.cfg.iceTransportPolicy = IF mode THEN "relay" ELSE "all"]

supportsTrickeIce(S, mode) == [S EXCEPT !.cfg.supportsTrickleIce = mode]

\* ---------------------------------------------------- ScratchWebRTC blocks
ModeNo(mode) == IF mode = "data" THEN 0 ELSE 1

blockNewPeer(S, name, mode) ==
  IF mode = "data" /\ Has(S.dc, name) THEN S
  ELSE IF mode = "voice" /\ Has(S.vc, name) THEN S
  ELSE getConnectionObject(S, name, ModeNo(mode), "true")

blockClosePeer(S, name, mode) ==
  IF mode = "data"
  THEN IF ~Has(S.dc, name) THEN S ELSE closeDataConnection(S, name)
  ELSE IF ~Has(S.vc, name) THEN S ELSE closeVoiceConnection(S, name)

\* until(): a poll that resolves whatever the condition says.
pollEager(S, peer) == Return(S, <<"void">>)

\* until(conditionFunction), for the condition of generateIce.  poll tests
\* the condition once: it resolves the promise, or it sets a timer of 100 ms
\* that polls again.  A wait is the peer its condition asks for; <<"void">>
\* is the resolved promise and <<"waiting">> the pending one.
poll(S, peer) ==
  IF doneGatheringIce(S, peer) THEN Return(S, <<"void">>)
  ELSE [Return(S, <<"waiting">>) EXCEPT !.polls = Append(@, peer)]

\* new Promise(poll) runs the first poll before until returns.
until(S, peer) == poll(S, peer)

\* The timer of the oldest wait expires.
ontimeout(S) == poll([S EXCEPT !.polls = Tail(@)], Head(S.polls))

blockGenerateIce(S, peer) == until(S, peer)

blockCreateChannel(S, peer, channel, ordered) ==
  IF doesPeerChannelExist(S, peer, channel) THEN S
  ELSE [createDataChannel(S, peer, channel, ordered) EXCEPT !.ret = <<"void">>]

\* The closeChannel block without its refusal of 'default'.
blockCloseChannelAnyLabel(S, peer, channel) ==
  IF ~doesPeerChannelExist(S, peer, channel) THEN S
  ELSE closeChannel(S, peer, channel)

blockCloseChannel(S, peer, channel) ==
  IF ~doesPeerChannelExist(S, peer, channel) THEN S
  ELSE IF channel = "default" THEN S
  ELSE closeChannel(S, peer, channel)

blockSendData(S, peer, channel, data, wait) ==
  sendData(S, peer, channel, data, wait)

blockGetData(S, peer, channel) ==
  IF getChannelData(S, peer, channel) = <<"undefined">> THEN <<"data", "">>
  ELSE getChannelData(S, peer, channel)

blockIsChannelOpen(S, peer, channel) == doesPeerChannelExist(S, peer, channel)

blockAllPeers(S) == getPeers(S)

blockAllPeerChannels(S, peer) == getPeerChannels(S, peer)

\* ------------------------------------------------------ the wire encoding
\* What btoa or atob hands back: a text, or an exception.  What JSON.parse
\* hands back: a value, or an exception.
Ok(v) == [ok |-> TRUE, v |-> v]
Thrown == [ok |-> FALSE, v |-> <<>>]
Value(x) == [ok |-> TRUE, v |-> x]
NoValue == [ok |-> FALSE, v |-> Null]

Hex(n) == IF n < 10 THEN 48 + n ELSE 87 + n

\* QuoteJSONString with the backslash left as it is.
EscapeCharKeepsBackslash(c) ==
  CASE c = 34 -> <<92, 34>>
    [] c = 8  -> <<92, 98>>
    [] c = 12 -> <<92, 102>>
    [] c = 10 -> <<92, 110>>
    [] c = 13 -> <<92, 114>>
    [] c = 9  -> <<92, 116>>
    [] c < 32 /\ c \notin {8, 9, 10, 12, 13} ->
         <<92, 117, 48, 48, Hex(c \div 16), Hex(c % 16)>>
    [] OTHER -> <<c>>

\* QuoteJSONString: the escapes of ", \ and the control characters.
EscapeChar(c) ==
  CASE c = 34 -> <<92, 34>>
    [] c = 92 -> <<92, 92>>
    [] c = 8  -> <<92, 98>>
    [] c = 12 -> <<92, 102>>
    [] c = 10 -> <<92, 110>>
    [] c = 13 -> <<92, 114>>
    [] c = 9  -> <<92, 116>>
    [] c < 32 /\ c \notin {8, 9, 10, 12, 13} ->
         <<92, 117, 48, 48, Hex(c \div 16), Hex(c % 16)>>
    [] OTHER -> <<c>>

RECURSIVE EscapeChars(_)
EscapeChars(s) ==
  IF s = <<>> THEN <<>> ELSE EscapeChar(Head(s)) \o EscapeChars(Tail(s))

Quote(s) == <<34>> \o EscapeChars(s) \o <<34>>

RECURSIVE Digits(_)
Digits(n) == IF n < 10 THEN <<48 + n>>
             ELSE Digits(n \div 10) \o <<48 + (n % 10)>>

\* JSON.stringify(x): no white space, members and elements in their order.
RECURSIVE JSONstringify(_)
RECURSIVE stringifyMembers(_)
RECURSIVE stringifyItems(_)
JSONstringify(x) ==
  CASE x.t = "str"  -> Quote(x.s)
    [] x.t = "num"  -> Digits(x.n)
    [] x.t = "null" -> <<110, 117, 108, 108>>
    [] x.t = "obj"  -> <<123>> \o stringifyMembers(x.m) \o <<125>>
    [] x.t = "arr"  -> <<91>> \o stringifyItems(x.m) \o <<93>>

stringifyMembers(ms) ==
  IF ms = <<>> THEN <<>>
  ELSE Quote(ms[1].k) \o <<58>> \o JSONstringify(ms[1])
       \o (IF Len(ms) > 1 THEN <<44>> ELSE <<>>) \o stringifyMembers(Tail(ms))

stringifyItems(xs) ==
  IF xs = <<>> THEN <<>>
  ELSE JSONstringify(xs[1])
       \o (IF Len(xs) > 1 THEN <<44>> ELSE <<>>) \o stringifyItems(Tail(xs))

\* The Base64 alphabet: A-Z, a-z, 0-9, + and /.
B64Char(n) ==
  CASE n < 26 -> 65 + n
    [] n >= 26 /\ n < 52 -> 71 + n
    [] n >= 52 /\ n < 62 -> n - 4
    [] n = 62 -> 43
    [] OTHER -> 47

B64Val(c) ==
  CASE c >= 65 /\ c <= 90  -> c - 65
    [] c >= 97 /\ c <= 122 -> c - 71
    [] c >= 48 /\ c <= 57  -> c + 4
    [] c = 43 -> 62
    [] c = 47 -> 63
    [] OTHER -> -1

RECURSIVE btoaBytes(_)
btoaBytes(s) ==
  CASE Len(s) = 0 -> <<>>
    [] Len(s) = 1 ->
         <<B64Char(s[1] \div 4), B64Char((s[1] % 4) * 16), 61, 61>>
    [] Len(s) = 2 ->
         <<B64Char(s[1] \div 4), B64Char((s[1] % 4) * 16 + s[2] \div 16),
           B64Char((s[2] % 16) * 4), 61>>
    [] OTHER ->
         <<B64Char(s[1] \div 4), B64Char((s[1] % 4) * 16 + s[2] \div 16),
           B64Char((s[2] % 16) * 4 + s[3] \div 64), B64Char(s[3] % 64)>>
         \o btoaBytes(SubSeq(s, 4, Len(s)))

\* btoa(s): every code unit is taken as one byte; one above 0xFF is an
\* InvalidCharacterError.
btoa(s) ==
  IF \E i \in 1..Len(s) : s[i] > 255 THEN Thrown ELSE Ok(btoaBytes(s))

RECURSIVE atobBytes(_)
atobBytes(b) ==
  CASE Len(b) = 0 -> <<>>
    [] Len(b) = 2 ->
         <<B64Val(b[1]) * 4 + B64Val(b[2]) \div 16>>
    [] Len(b) = 3 ->
         <<B64Val(b[1]) * 4 + B64Val(b[2]) \div 16,
           (B64Val(b[2]) % 16) * 16 + B64Val(b[3]) \div 4>>
    [] OTHER ->
         <<B64Val(b[1]) * 4 + B64Val(b[2]) \div 16,
           (B64Val(b[2]) % 16) * 16 + B64Val(b[3]) \div 4,
           (B64Val(b[3]) % 4) * 64 + B64Val(b[4])>>
         \o atobBytes(SubSeq(b, 5, Len(b)))

\* atob(w), the forgiving Base64 decoding: white space is dropped, one or
\* two padding characters are dropped from a text of a multiple of four
\* characters, and any other character outside the alphabet, or one
\* character left over, is an InvalidCharacterError.
IsSpace(c) == c \in {9, 10, 12, 13, 32}
NotSpace(c) == ~IsSpace(c)

atob(w) ==
  LET a == SelectSeq(w, NotSpace)
      n == Len(a)
      b == IF n > 0 /\ n % 4 = 0 /\ a[n] = 61
           THEN IF a[n - 1] = 61 THEN SubSeq(a, 1, n - 2)
                ELSE SubSeq(a, 1, n - 1)
           ELSE a
  IN IF Len(b) % 4 = 1 \/ \E i \in 1..Len(b) : B64Val(b[i]) < 0
     THEN Thrown ELSE Ok(atobBytes(b))

\* JSON.parse(s), by recursive descent.  A parse step hands back the value
\* and the position after it, or fails.
At(x, i) == [ok |-> TRUE, v |-> x, i |-> i]
Bad == [ok |-> FALSE, v |-> Null, i |-> 0]
TextAt(s, i) == [ok |-> TRUE, v |-> s, i |-> i]
BadText == [ok |-> FALSE, v |-> <<>>, i |-> 0]

RECURSIVE SkipSpace(_, _)
SkipSpace(s, i) ==
  IF i <= Len(s) /\ s[i] \in {9, 10, 13, 32} THEN SkipSpace(s, i + 1) ELSE i

IsDigit(c) == c >= 48 /\ c <= 57
IsHex(c) == IsDigit(c) \/ (c >= 97 /\ c <= 102) \/ (c >= 65 /\ c <= 70)
HexVal(c) == CASE IsDigit(c) -> c - 48
               [] c >= 97 /\ c <= 102 -> c - 87
               [] OTHER -> c - 55

Unescape(c) ==
  CASE c = 34 -> 34 [] c = 92 -> 92 [] c = 47 -> 47 [] c = 98 -> 8
    [] c = 102 -> 12 [] c = 110 -> 10 [] c = 114 -> 13 [] c = 116 -> 9
    [] OTHER -> -1

\* The characters of a string after its opening quote.
RECURSIVE parseChars(_, _, _)
parseChars(s, i, acc) ==
  CASE i > Len(s) -> BadText
    [] i <= Len(s) /\ s[i] = 34 -> TextAt(acc, i + 1)
    [] i <= Len(s) /\ s[i] = 92 ->
         IF i + 1 > Len(s) THEN BadText
         ELSE IF Unescape(s[i + 1]) >= 0
              THEN parseChars(s, i + 2, Append(acc, Unescape(s[i + 1])))
         ELSE IF s[i + 1] = 117 /\ i + 5 <= Len(s)
                 /\ \A k \in 2..5 : IsHex(s[i + k])
              THEN parseChars(s, i + 6,
                     Append(acc, HexVal(s[i + 2]) * 4096 + HexVal(s[i + 3]) * 256
                                 + HexVal(s[i + 4]) * 16 + HexVal(s[i + 5])))
         ELSE BadText
    [] i <= Len(s) /\ s[i] < 32 -> BadText
    [] OTHER -> parseChars(s, i + 1, Append(acc, s[i]))

\* The digits of a natural number; a leading zero stands alone.
RECURSIVE parseDigits(_, _, _)
parseDigits(s, i, n) ==
  IF i <= Len(s) /\ IsDigit(s[i]) THEN parseDigits(s, i + 1, 10 * n + s[i] - 48)
  ELSE At(Num(n), i)

Literal(s, i, w) ==
  i + Len(w) - 1 <= Len(s) /\ SubSeq(s, i, i + Len(w) - 1) = w

RECURSIVE parseValue(_, _)
RECURSIVE parseMembers(_, _, _)
RECURSIVE parseItems(_, _, _)
parseValue(s, i0) ==
  LET i == SkipSpace(s, i0) IN
  CASE i > Len(s) -> Bad
    [] i <= Len(s) /\ s[i] = 34 ->
         LET r == parseChars(s, i + 1, <<>>)
         IN IF r.ok THEN At(Str(r.v), r.i) ELSE Bad
    [] i <= Len(s) /\ s[i] = 123 ->
         LET j == SkipSpace(s, i + 1)
         IN IF j <= Len(s) /\ s[j] = 125 THEN At(Obj(<<>>), j + 1)
            ELSE parseMembers(s, j, <<>>)
    [] i <= Len(s) /\ s[i] = 91 ->
         LET j == SkipSpace(s, i + 1)
         IN IF j <= Len(s) /\ s[j] = 93 THEN At(Arr(<<>>), j + 1)
            ELSE parseItems(s, j, <<>>)
    [] i <= Len(s) /\ s[i] = 48 ->
         IF i + 1 <= Len(s) /\ IsDigit(s[i + 1]) THEN Bad
         ELSE At(Num(0), i + 1)
    [] i <= Len(s) /\ s[i] >= 49 /\ s[i] <= 57 -> parseDigits(s, i, 0)
    [] i <= Len(s) /\ s[i] = 110 ->
         IF Literal(s, i, <<110, 117, 108, 108>>) THEN At(Null, i + 4) ELSE Bad
    [] OTHER -> Bad

\* "key" : value, then a comma and the next member, or the closing brace.
parseMembers(s, i0, acc) ==
  LET i == SkipSpace(s, i0) IN
  IF i > Len(s) \/ s[i] # 34 THEN Bad
  ELSE
    LET k == parseChars(s, i + 1, <<>>) IN
    IF ~k.ok THEN Bad
    ELSE
      LET c == SkipSpace(s, k.i) IN
      IF c > Len(s) \/ s[c] # 58 THEN Bad
      ELSE
        LET v == parseValue(s, c + 1) IN
        IF ~v.ok THEN Bad
        ELSE
          LET e   == SkipSpace(s, v.i)
              all == Append(acc, Member(k.v, v.v))
          IN CASE e > Len(s) -> Bad
               [] e <= Len(s) /\ s[e] = 44 -> parseMembers(s, e + 1, all)
               [] e <= Len(s) /\ s[e] = 125 -> At(Obj(all), e + 1)
               [] OTHER -> Bad

\* value, then a comma and the next element, or the closing bracket.
parseItems(s, i0, acc) ==
  LET v == parseValue(s, i0) IN
  IF ~v.ok THEN Bad
  ELSE
    LET e   == SkipSpace(s, v.i)
        all == Append(acc, v.v)
    IN CASE e > Len(s) -> Bad
         [] e <= Len(s) /\ s[e] = 44 -> parseItems(s, e + 1, all)
         [] e <= Len(s) /\ s[e] = 93 -> At(Arr(all), e + 1)
         [] OTHER -> Bad

\* JSON.parse(s): one value and nothing after it, or a SyntaxError.
JSONparse(s) ==
  LET r == parseValue(s, 1) IN
  IF r.ok /\ SkipSpace(s, r.i) = Len(s) + 1 THEN Value(r.v) ELSE NoValue

\* What the blocks put on the wire and read from it: btoa(JSON.stringify(x))
\* and JSON.parse(atob(w)).
encode(x) == btoa(JSONstringify(x))

decode(w) ==
  LET a == atob(w) IN IF a.ok THEN JSONparse(a.v) ELSE NoValue

\* The `switch (args.mode)` of the handshake blocks: any other text leaves
\* the mode undefined, which getConnectionObject takes as invalid.
SwitchMode(mode) ==
  CASE mode = "data" -> 0 [] mode = "voice" -> 1 [] OTHER -> 2

\* `for (const key in candidates)`: the elements of an array and the members
\* of an object in their order, the characters of a string, nothing of a
\* number or of null.
ForIn(x) ==
  CASE x.t \in {"arr", "obj"} -> x.m
    [] x.t = "str" -> [i \in 1..Len(x.s) |-> Str(<<x.s[i]>>)]
    [] OTHER -> <<>>

\* The loop of handleIce from element n on.  No call is awaited: each runs
\* up to its `await getConnectionObject`, and the calls that are not left
\* waiting for getUserMedia go on to addIceCandidate in the order in which
\* they were made.  `fail` is the number of the element whose
\* addIceCandidate the engine rejects for a reason of its own.
RECURSIVE handleIceLoop(_, _, _, _, _, _)
handleIceLoop(S, peer, mode, items, n, fail) ==
  IF n > Len(items) THEN Return(S, <<"void">>)
  ELSE handleIceLoop(
         handleIceCandidate(S, peer, mode, items[n], "true",
                            IF fail = n THEN 1 ELSE 0),
         peer, mode, items, n + 1, fail)

\* handleIce({peer, mode, ice}): a text that does not decode is an exception
\* of atob or JSON.parse, which nothing catches.
blockHandleIce(S, peer, mode, ice, fail) ==
  LET candidates == decode(ice) IN
  IF ~candidates.ok THEN Throw(S)
  ELSE handleIceLoop(S, peer, SwitchMode(mode), ForIn(candidates.v), 1, fail)


\* createOffer({peer, mode}): the peer is also the name, and setup is true.
\* The offers cache that the block fills is read by getOffer alone.
blockCreateOffer(S, peer, mode, fail) ==
  createOffer(S, peer, peer, SwitchMode(mode), "true", fail)

\* createAnswer({peer, mode, offer}): the mode picks the answers cache; the
\* call to the registry passes 0.  `offer` is the decoded description.
blockCreateAnswer(S, peer, mode, offer, fail) ==
  createAnswer(S, peer, peer, 0, offer, "true", fail)

\* handleAnswer({peer, mode, answer}): the call to the registry passes 0.
blockHandleAnswer(S, peer, mode, answer, fail) ==
  handleAnswer(S, peer, 0, answer, fail)

\* The remote peer runs the same program, from the same initial state; its
\* record also keeps the last operation.  Nothing is on the wire.
Fresh ==
  [dc |-> <<>>, dch |-> <<>>, ds |-> <<>>, dic |-> <<>>, did |-> <<>>,
   vc |-> <<>>, vs |-> <<>>, vic |-> <<>>, vid |-> <<>>,
   cfg |-> DefaultConfiguration,
   conns |-> [h \in 1..MaxHandles |-> FreeConn],
   chans |-> [c \in 1..MaxChans |-> FreeChan],
   mic |-> {}, dom |-> <<>>, nstreams |-> 0, eh |-> <<>>, polls |-> <<>>,
   heard |-> <<>>, seen |-> <<>>, tally |-> 0,
   ret |-> <<"void">>, fired |-> <<>>, calls |-> <<>>, raised |-> FALSE,
   op |-> NoOp]

NoWire == [offer |-> NoDesc, answer |-> NoDesc]

Init ==
  /\ dataConnections = <<>>
  /\ dataChannels = <<>>
  /\ dataStorage = <<>>
  /\ dataIceCandidates = <<>>
  /\ dataIceDone = <<>>
  /\ voiceConnections = <<>>
  /\ voiceStreams = <<>>
  /\ voiceIceCandidates = <<>>
  /\ voiceIceDone = <<>>
  /\ configuration = DefaultConfiguration
  /\ conns = [h \in 1..MaxHandles |-> FreeConn]
  /\ chans = [c \in 1..MaxChans |-> FreeChan]
  /\ mic = {}
  /\ dom = <<>>
  /\ nstreams = 0
  /\ eventHandlers = <<>>
  /\ polls = <<>>
  /\ heard = <<>>
  /\ seen = <<>>
  /\ tally = 0
  /\ op = NoOp
  /\ ret = <<"void">>
  /\ fired = <<>>
  /\ calls = <<>>
  /\ raised = FALSE
  /\ far = Fresh
  /\ wire = NoWire

\* ------------------------------------------------------------------ actions
\* Calls of the OmegaRTC methods.
CanConn == \E h \in 1..MaxHandles : IsFreeConn(Cur, h)
CanChan == \E c \in 1..MaxChans : IsFreeChan(Cur, c)

DoGetDataConnection(id) ==
  /\ Has(dataConnections, id) \/ (CanConn /\ CanChan)
  /\ Commit(getDataConnection(Cur, id),
            [Op("getDataConnection") EXCEPT !.id = id, !.mode = "data",
                                            !.pre = Has(dataConnections, id)])

DoGetVoiceConnection(id, setup) ==
  /\ Has(voiceConnections, id) \/ CanConn
  /\ Commit(getVoiceConnection(Cur, id, setup),
            [Op("getVoiceConnection") EXCEPT !.id = id, !.mode = "voice",
                                             !.flag = setup,
                                             !.pre = Has(voiceConnections, id)])

DoCloseDataConnection(id) ==
  Commit(closeDataConnection(Cur, id),
         [Op("closeDataConnection") EXCEPT !.id = id, !.mode = "data",
                                           !.pre = Has(dataConnections, id)])

DoCloseVoiceConnection(id) ==
  Commit(closeVoiceConnection(Cur, id),
         [Op("closeVoiceConnection") EXCEPT !.id = id, !.mode = "voice",
                                            !.pre = Has(voiceConnections, id)])

DoCreateDataChannel(id, label, ordered) ==
  /\ ~Has(dataConnections, id) \/ CanChan
  /\ Commit(createDataChannel(Cur, id, label, ordered),
            [Op("createDataChannel") EXCEPT !.id = id, !.label = label,
                                            !.flag = ordered,
                                            !.pre = Has(dataConnections, id)])

DoCloseChannel(id, label) ==
  Commit(closeChannel(Cur, id, label),
         [Op("closeChannel") EXCEPT !.id = id, !.label = label,
                                    !.pre = doesPeerChannelExist(Cur, id, label)])

DoSendData(id, label, data, wait) ==
  Commit(sendData(Cur, id, label, data, wait),
         [Op("sendData") EXCEPT !.id = id, !.label = label, !.data = data,
                                !.flag = wait,
                                !.pre = doesPeerChannelExist(Cur, id, label)])

\* Calls of the handshake methods.  A call that may construct a connection
\* needs the engine to have room for one.
ModeName(mode) == CASE mode = 0 -> "data" [] mode = 1 -> "voice" [] OTHER -> ""

Registered(S, id, mode) ==
  CASE mode = 0 -> Has(S.dc, id) [] mode = 1 -> Has(S.vc, id) [] OTHER -> FALSE

Room(id, mode, setup) ==
  CASE mode = 0 -> Has(dataConnections, id) \/ (CanConn /\ CanChan)
    [] mode = 1 /\ setup # "undefined" -> Has(voiceConnections, id) \/ CanConn
    [] OTHER -> TRUE

HandshakeOp(name, id, mode, setup, fail) ==
  [Op(name) EXCEPT !.id = id, !.mode = ModeName(mode), !.c = mode,
                   !.label = setup, !.h = fail,
                   !.pre = Registered(Cur, id, mode)]

DoCreateOffer(id, mode, setup, fail) ==
  /\ Room(id, mode, setup)
  /\ Commit(createOffer(Cur, id, id, mode, setup, fail),
            HandshakeOp("createOffer", id, mode, setup, fail))

DoCreateAnswer(id, mode, offer, setup, fail) ==
  /\ Room(id, mode, setup)
  /\ Commit(createAnswer(Cur, id, id, mode, offer, setup, fail),
            [HandshakeOp("createAnswer", id, mode, setup, fail)
               EXCEPT !.data = offer.type])

DoHandleAnswer(id, mode, answer, fail) ==
  /\ Room(id, mode, "undefined")
  /\ Commit(handleAnswer(Cur, id, mode, answer, fail),
            [HandshakeOp("handleAnswer", id, mode, "undefined", fail)
               EXCEPT !.data = answer.type])

\* The model keeps at most MaxCands remote candidates per connection.
CanAdd(id, mode) ==
  Registered(Cur, id, mode) =>
    Len(conns[Get(IF mode = 0 THEN dataConnections ELSE voiceConnections,
                  id)].added) < MaxCands

DoHandleIceCandidate(id, mode, cand, setup, fail) ==
  /\ Room(id, mode, setup)
  /\ CanAdd(id, mode)
  /\ Commit(handleIceCandidate(Cur, id, mode, cand, setup, fail),
            HandshakeOp("handleIceCandidate", id, mode, setup, fail))

BlockHandleIce(peer, mode, ice, fail) ==
  /\ Room(peer, SwitchMode(mode), "true")
  /\ CanAdd(peer, SwitchMode(mode))
  /\ Commit(blockHandleIce(Cur, peer, mode, ice, fail),
            [Op("handleIce") EXCEPT !.id = peer, !.mode = mode,
                                    !.c = SwitchMode(mode), !.data = ice,
                                    !.h = fail,
                                    !.pre = Registered(Cur, peer, SwitchMode(mode))])

\* The handshake blocks.  `c` is the mode number the registry is called with.
BlockOp(name, peer, mode, c, fail) ==
  [Op(name) EXCEPT !.id = peer, !.mode = mode, !.c = c, !.h = fail,
                   !.pre = Registered(Cur, peer, c)]

BlockCreateOffer(peer, mode, fail) ==
  /\ Room(peer, SwitchMode(mode), "true")
  /\ Commit(blockCreateOffer(Cur, peer, mode, fail),
            BlockOp("createOfferBlock", peer, mode, SwitchMode(mode), fail))

BlockCreateAnswer(peer, mode, offer, fail) ==
  /\ Room(peer, 0, "true")
  /\ Commit(blockCreateAnswer(Cur, peer, mode, offer, fail),
            BlockOp("createAnswerBlock", peer, mode, 0, fail))

BlockHandleAnswer(peer, mode, answer, fail) ==
  /\ Room(peer, 0, "undefined")
  /\ Commit(blockHandleAnswer(Cur, peer, mode, answer, fail),
            BlockOp("handleAnswerBlock", peer, mode, 0, fail))

\* Calls of on() and fire() by the code that embeds the registry.
Subscribed == LET lens == [i \in 1..Len(eventHandlers) |->
                            Len(eventHandlers[i][2])]
                  sum[i \in 0..Len(lens)] ==
                    IF i = 0 THEN 0 ELSE sum[i - 1] + lens[i]
              IN sum[Len(lens)]

DoOn(eventName, callback) ==
  /\ Subscribed < MaxSubs
  /\ Commit(on(Cur, eventName, callback),
            [Op("on") EXCEPT !.id = eventName, !.label = callback])

DoFire(eventName, s, n) ==
  Commit(fireEvent(Cur, eventName, s, n),
         [Op("fire") EXCEPT !.id = eventName, !.data = s, !.c = n])

BlockGenerateIce(peer) ==
  /\ Len(polls) < MaxPolls
  /\ Commit(blockGenerateIce(Cur, peer),
            [Op("generateIce") EXCEPT !.id = peer,
                                      !.pre = doneGatheringIce(Cur, peer)])

\* All timers have the same delay, so they expire in the order they were set.
OnTimeout ==
  /\ polls # <<>>
  /\ Commit(ontimeout(Cur),
            [Op("timeout") EXCEPT !.id = Head(polls),
                                  !.pre = doneGatheringIce(Cur, Head(polls))])

DoRelayOnly(mode) ==
  Commit(relayOnly(Cur, mode), [Op("relayOnly") EXCEPT !.flag = mode])

DoSupportsTrickeIce(mode) ==
  Commit(supportsTrickeIce(Cur, mode),
         [Op("supportsTrickeIce") EXCEPT !.flag = mode])

\* A call of a query method; op.c holds the mode number of allIceCandidates.
DoQuery(q, id, label, mode) ==
  Commit(query(Cur, q, id, label, mode),
         [Op(q) EXCEPT !.id = id, !.label = label, !.c = mode,
                       !.pre = Has(dataConnections, id)])

\* The blocks a project runs.
BlockNewPeer(name, mode) ==
  /\ \/ Has(IF mode = "data" THEN dataConnections ELSE voiceConnections, name)
     \/ (CanConn /\ (mode = "data" => CanChan))
  /\ Commit(blockNewPeer(Cur, name, mode),
            [Op("newPeer") EXCEPT
               !.id = name, !.mode = mode,
               !.pre = Has(IF mode = "data" THEN dataConnections
                           ELSE voiceConnections, name)])

BlockClosePeer(name, mode) ==
  Commit(blockClosePeer(Cur, name, mode),
         [Op("closePeer") EXCEPT
            !.id = name, !.mode = mode,
            !.pre = Has(IF mode = "data" THEN dataConnections
                        ELSE voiceConnections, name)])

BlockCreateChannel(peer, channel, ordered) ==
  /\ ~Has(dataConnections, peer) \/ CanChan
  /\ Commit(blockCreateChannel(Cur, peer, channel, ordered),
            [Op("createChannel") EXCEPT
               !.id = peer, !.label = channel, !.flag = ordered,
               !.pre = Has(dataConnections, peer)
                       /\ ~doesPeerChannelExist(Cur, peer, channel)])

BlockCloseChannel(peer, channel) ==
  Commit(blockCloseChannel(Cur, peer, channel),
         [Op("closeChannelBlock") EXCEPT
            !.id = peer, !.label = channel,
            !.pre = doesPeerChannelExist(Cur, peer, channel)])

BlockSendData(peer, channel, data, wait) ==
  Commit(blockSendData(Cur, peer, channel, data, wait),
         [Op("sendDataBlock") EXCEPT
            !.id = peer, !.label = channel, !.data = data, !.flag = wait,
            !.pre = doesPeerChannelExist(Cur, peer, channel)])

\* What the native engine does.  A closed connection dispatches no event of
\* its own; the close event of a channel is dispatched on its own task, also
\* after the channel's connection was closed.
Open(h) == ~conns[h].closed

MicGranted(h) ==
  /\ h \in mic
  /\ Commit(resume(setupVoiceConnectionGranted(Cur, h, conns[h].id), h),
            [Op("micGranted") EXCEPT !.id = conns[h].id, !.mode = "voice",
                                     !.h = h,
                                     !.pre = Has(voiceConnections, conns[h].id)])

MicDenied(h) ==
  /\ h \in mic
  /\ Commit(resume(setupVoiceConnectionDenied(Cur, h, conns[h].id), h),
            [Op("micDenied") EXCEPT !.id = conns[h].id, !.mode = "voice",
                                    !.h = h,
                                    !.pre = Has(voiceConnections, conns[h].id)])

onicecandidate(S, h, cand) ==
  IF S.conns[h].mode = "data"
  THEN onicecandidateData(S, h, S.conns[h].id, cand)
  ELSE onicecandidateVoice(S, h, S.conns[h].id, cand)

OnIceCandidate(h) ==
  /\ Open(h)
  /\ conns[h].gather # "complete"
  /\ conns[h].ncand < MaxCands
  /\ Commit(onicecandidate([Cur EXCEPT !.conns[h].gather = "gathering",
                                       !.conns[h].ncand = @ + 1],
                           h, conns[h].ncand + 1),
            [Op("onicecandidate") EXCEPT !.id = conns[h].id,
                                         !.mode = conns[h].mode, !.h = h,
                                         !.c = conns[h].ncand + 1])

OnIceComplete(h) ==
  /\ Open(h)
  /\ conns[h].gather # "complete"
  /\ Commit(onicecandidate([Cur EXCEPT !.conns[h].gather = "complete"], h, 0),
            [Op("onicecomplete") EXCEPT !.id = conns[h].id,
                                        !.mode = conns[h].mode, !.h = h])

\* new and connecting are one state here: their handler cases only log.
\* A connected connection that loses its transport is disconnected and may
\* recover.
NextStates(s) ==
  CASE s = "new"          -> {"connected", "failed", "closed"}
    [] s = "connected"    -> {"disconnected", "failed", "closed"}
    [] s = "disconnected" -> {"connected", "failed", "closed"}
    [] OTHER              -> {}

onconnectionstatechange(S, h) ==
  IF S.conns[h].mode = "data"
  THEN onconnectionstatechangeData(S, h, S.conns[h].id)
  ELSE onconnectionstatechangeVoice(S, h, S.conns[h].id)

OnConnectionStateChange(h, s) ==
  /\ Open(h)
  /\ s \in NextStates(conns[h].state)
  /\ Commit(onconnectionstatechange([Cur EXCEPT !.conns[h].state = s], h),
            [Op("onconnectionstatechange") EXCEPT
               !.id = conns[h].id, !.mode = conns[h].mode, !.h = h,
               !.data = s,
               !.pre = Has(IF conns[h].mode = "data" THEN dataConnections
                           ELSE voiceConnections, conns[h].id)])

\* The remote peer announces a channel in-band.
OnDataChannel(h, label, ordered) ==
  /\ Open(h)
  /\ conns[h].mode = "data"
  /\ conns[h].state = "connected"
  /\ CanChan
  /\ Commit(ondatachannel(
              [Cur EXCEPT !.chans[NewChanSlot(Cur)] =
                            [NewChan(h, conns[h].id, label, FALSE, ordered)
                               EXCEPT !.state = "open"]],
              NewChanSlot(Cur), conns[h].id),
            [Op("ondatachannel") EXCEPT
               !.id = conns[h].id, !.label = label, !.flag = ordered, !.h = h,
               !.c = NewChanSlot(Cur),
               !.pre = doesPeerChannelExist(Cur, conns[h].id, label)])

Hooked(c) == chans[c].hooked

OnChannelOpen(c) ==
  /\ Hooked(c)
  /\ chans[c].state = "connecting"
  /\ conns[chans[c].conn].state = "connected"
  /\ Commit(onopen([Cur EXCEPT !.chans[c].state = "open"],
                   chans[c].id, chans[c].label),
            [Op("onopen") EXCEPT !.id = chans[c].id, !.label = chans[c].label,
                                 !.c = c, !.h = chans[c].conn])

OnMessage(c, data) ==
  /\ Hooked(c)
  /\ chans[c].state = "open"
  /\ Commit(onmessage(Cur, c, chans[c].id, chans[c].label, data),
            [Op("onmessage") EXCEPT !.id = chans[c].id,
                                    !.label = chans[c].label, !.c = c,
                                    !.h = chans[c].conn, !.data = data])

\* A message that the engine had received when the channel began to close is
\* still delivered while the channel is closing.  Whether it is delivered or
\* discarded is the engine's choice.
OnMessageClosing(c, data) ==
  /\ Hooked(c)
  /\ chans[c].state = "closing"
  /\ Commit(onmessage(Cur, c, chans[c].id, chans[c].label, data),
            [Op("onmessage") EXCEPT !.id = chans[c].id,
                                    !.label = chans[c].label, !.c = c,
                                    !.h = chans[c].conn, !.data = data,
                                    !.pre = Has(dataConnections, chans[c].id)])

\* The buffer of an open channel has drained: bufferedAmount fell from
\* above the threshold, which is 0, to the threshold.
OnBufferedAmountLow(c) ==
  /\ chans[c].state = "open"
  /\ chans[c].buffered
  /\ Commit(onbufferedamountlow([Cur EXCEPT !.chans[c].buffered = FALSE], c),
            [Op("onbufferedamountlow") EXCEPT
               !.id = chans[c].id, !.label = chans[c].label, !.c = c,
               !.h = chans[c].conn, !.pre = chans[c].low])

\* The close event: of a channel the program closed, of a channel that went
\* down with its connection, or of an open channel the remote peer closed.
OnChannelClose(c) ==
  /\ Hooked(c)
  /\ chans[c].state \in {"open", "closing"}
  /\ Commit(onclose([Cur EXCEPT !.chans[c].state = "closed"],
                    chans[c].id, chans[c].label),
            [Op("onclose") EXCEPT
               !.id = chans[c].id, !.label = chans[c].label,
               !.c = c, !.h = chans[c].conn,
               !.pre = Has(dataConnections, chans[c].id)])

OnTrack(h, n) ==
  /\ Open(h)
  /\ conns[h].mode = "voice"
  /\ nstreams + n <= MaxStreams
  /\ Commit(ontrack(Cur, conns[h].id, 0, n),
            [Op("ontrack") EXCEPT !.id = conns[h].id, !.mode = "voice",
                                  !.h = h, !.c = n])

Handles  == 1..MaxHandles
Channels == 1..MaxChans
Reports  == {"connected", "failed", "closed"}
IsMode(h, m) == conns[h].mode = m

\* A send that reaches an open channel.  The wait-mode sends that do are
\* the subject of DrainSpec; the other scenarios make the wait-mode sends
\* that return or throw before anything is queued.
Sendable(id, l) ==
  /\ doesPeerChannelExist(Cur, id, l)
  /\ chans[Get(Get(dataChannels, id), l)].state = "open"

Dry(id, l, w) == w => ~Sendable(id, l)

\* Calls of the registry's data methods, for the ids I.
DataCalls(I) ==
  \/ \E id \in I : DoGetDataConnection(id)
  \/ \E id \in I : DoCloseDataConnection(id)
  \/ \E id \in I, l \in Labels, o \in BOOLEAN : DoCreateDataChannel(id, l, o)
  \/ \E id \in I, l \in Labels : DoCloseChannel(id, l)
  \/ \E id \in I, l \in Labels, w \in BOOLEAN :
       Dry(id, l, w) /\ DoSendData(id, l, "x", w)

\* Calls of the registry's voice methods, for the ids I.
VoiceCalls(I) ==
  \/ \E id \in I, setup \in BOOLEAN : DoGetVoiceConnection(id, setup)
  \/ \E id \in I : DoCloseVoiceConnection(id)

ConfigCalls ==
  \/ \E m \in BOOLEAN : DoRelayOnly(m)
  \/ \E m \in BOOLEAN : DoSupportsTrickeIce(m)

\* The blocks, for the peers I and the modes M.
Blocks(I, M) ==
  \/ \E id \in I, m \in M : BlockNewPeer(id, m)
  \/ \E id \in I, m \in M : BlockClosePeer(id, m)
  \/ \E id \in I, l \in Labels, o \in BOOLEAN : BlockCreateChannel(id, l, o)
  \/ \E id \in I, l \in Labels : BlockCloseChannel(id, l)
  \/ \E id \in I, l \in Labels, w \in BOOLEAN :
       Dry(id, l, w) /\ BlockSendData(id, l, "x", w)

\* The engine's events on data connections: the remote peer announces the
\* labels L in-band and sends the payloads D.
DataEvents(L, D) ==
  \/ \E h \in Handles : IsMode(h, "data") /\ OnIceCandidate(h)
  \/ \E h \in Handles : IsMode(h, "data") /\ OnIceComplete(h)
  \/ \E h \in Handles, s \in Reports :
       IsMode(h, "data") /\ OnConnectionStateChange(h, s)
  \/ \E h \in Handles, l \in L, o \in BOOLEAN : OnDataChannel(h, l, o)
  \/ \E c \in Channels : OnChannelOpen(c)
  \/ \E c \in Channels, d \in D : OnMessage(c, d)
  \/ \E c \in Channels : OnChannelClose(c)

\* The engine's events on voice connections.
VoiceEvents ==
  \/ \E h \in Handles : MicGranted(h)
  \/ \E h \in Handles : MicDenied(h)
  \/ \E h \in Handles : IsMode(h, "voice") /\ OnIceCandidate(h)
  \/ \E h \in Handles : IsMode(h, "voice") /\ OnIceComplete(h)
  \/ \E h \in Handles, s \in Reports :
       IsMode(h, "voice") /\ OnConnectionStateChange(h, s)
  \/ \E h \in Handles, n \in 1..2 : OnTrack(h, n)

\* Creation and teardown alone, in both modes: the calls and blocks that
\* create or close a connection, and the events that tear one down.
Lifecycle(I) ==
  \/ \E id \in I : DoGetDataConnection(id)
  \/ \E id \in I, setup \in BOOLEAN : DoGetVoiceConnection(id, setup)
  \/ \E id \in I : DoCloseDataConnection(id)
  \/ \E id \in I : DoCloseVoiceConnection(id)
  \/ \E id \in I, m \in Modes : BlockNewPeer(id, m)
  \/ \E id \in I, m \in Modes : BlockClosePeer(id, m)
  \/ \E h \in Handles : MicGranted(h)
  \/ \E h \in Handles : MicDenied(h)
  \/ \E h \in Handles, s \in Reports : OnConnectionStateChange(h, s)
  \/ \E c \in Channels : OnChannelOpen(c)
  \/ \E c \in Channels : OnChannelClose(c)

\* The whole program: every method, block and event, for every id.
Next ==
  \/ DataCalls(Ids)
  \/ VoiceCalls(Ids)
  \/ ConfigCalls
  \/ Blocks(Ids, Modes)
  \/ DataEvents(Labels, Data)
  \/ VoiceEvents

Spec == Init /\ [][Next]_vars

\* Connections of both modes under one id, created and torn down.
PeerNext == Lifecycle({"bob"})

PeerSpec == Init /\ [][PeerNext]_vars

\* One data connection with its registered channels: created, closed as a
\* whole or channel by channel, through the registry's methods and the blocks,
\* with a remote peer that may announce any label.
DataNext ==
  \/ DoGetDataConnection("bob")
  \/ DoCloseDataConnection("bob")
  \/ \E l \in Labels : DoCloseChannel("bob", l)
  \/ BlockClosePeer("bob", "data")
  \/ \E l \in Labels : BlockCloseChannel("bob", l)
  \/ DataEvents(Labels, {"x"})

DataSpec == Init /\ [][DataNext]_vars

\* One data connection driven through the blocks alone, on both endpoints:
\* the remote createChannel block refuses a label its registry holds, and it
\* always holds 'default', so 'default' is never announced in-band.
BlockNext ==
  \/ Blocks({"bob"}, {"data"})
  \/ DataEvents(Labels \ {"default"}, {"x"})

BlockSpec == Init /\ [][BlockNext]_vars
\* =============================================================== properties
\* The map that holds the connections of a mode, the registry's nine maps,
\* and everything outside the registry that a handler can touch.
ConnMap(mode) == IF mode = "data" THEN dataConnections ELSE voiceConnections

Registry == <<dataConnections, dataChannels, dataStorage, dataIceCandidates,
              dataIceDone, voiceConnections, voiceStreams, voiceIceCandidates,
              voiceIceDone>>

Engine == <<conns, chans, mic, dom, nstreams>>

Bus == <<eventHandlers, polls, heard, seen, tally>>

\* The program state after the step.
Nxt == Cur'

OneOpenPerKey ==
  \A h \in Handles :
    Open(h) => /\ Has(ConnMap(conns[h].mode), conns[h].id)
               /\ Get(ConnMap(conns[h].mode), conns[h].id) = h

GetExisting ==
  (op'.name \in {"getDataConnection", "getVoiceConnection"} /\ op'.pre)
    => /\ ret' = <<"conn", Get(ConnMap(op'.mode), op'.id)>>
       /\ calls' = <<>>
       /\ ~raised'
       /\ Registry' = Registry
       /\ Engine' = Engine

\* C1: at most one connection exists per (mode, id): every connection object
\* that is not closed is the one its mode's map holds under its id; and a
\* getDataConnection or getVoiceConnection for a key that is registered
\* returns the registered connection, constructs no connection and changes
\* nothing, also while that connection's creation still waits for the
\* microphone.
C1_OneConnectionPerKey == []OneOpenPerKey /\ [][GetExisting]_vars

\* A get for a voice key whose first creation is suspended in getUserMedia.
C1_Witness ==
  /\ op.name = "getVoiceConnection"
  /\ op.pre
  /\ Has(voiceConnections, op.id)
  /\ Get(voiceConnections, op.id) \in mic
  /\ ret = <<"conn", Get(voiceConnections, op.id)>>

CloseAbsent ==
  (op'.name \in {"closeDataConnection", "closeVoiceConnection"} /\ ~op'.pre)
    => /\ Registry' = Registry
       /\ Engine' = Engine
       /\ fired' = <<>>
       /\ calls' = <<>>
       /\ ~raised'

\* A close handler of the default channel that runs after the caller closed
\* the connection: its closeDataConnection finds the id absent.
LateClose ==
  (op'.name = "onclose" /\ op'.label = "default" /\ ~op'.pre)
    => /\ Registry' = Registry
       /\ conns' = conns
       /\ calls' = <<>>
       /\ ~raised'

CloseAbsentReturnsState ==
  \A id \in Ids :
    /\ ~Has(dataConnections, id) => closeDataConnection(Cur, id) = Cur
    /\ ~Has(voiceConnections, id) => closeVoiceConnection(Cur, id) = Cur

\* C2: closeDataConnection(id) and closeVoiceConnection(id) for an id that is
\* not registered in that mode change no map and no native object, publish no
\* event, make no native call and raise nothing, whether the caller makes the
\* call or a handler that runs after the connection was closed.
C2_CloseAbsentIsNoOp ==
  []CloseAbsentReturnsState /\ [][CloseAbsent /\ LateClose]_vars

\* A close of an absent key while other connections are registered.
C2_Witness ==
  /\ op.name \in {"closeDataConnection", "closeVoiceConnection"}
  /\ ~op.pre
  /\ ~Has(ConnMap(op.mode), op.id)
  /\ (dataConnections # <<>> \/ voiceConnections # <<>>)

OpenDataIds ==
  {conns[h].id : h \in {k \in Handles : Open(k) /\ conns[k].mode = "data"}}

\* A step in which closeDataConnection runs for a registered id: called
\* directly, through the closePeer block, or from the handlers of a closed or
\* failed connection state and of the default channel's close event.
ClosesData(o) ==
  /\ o.pre
  /\ \/ o.name = "closeDataConnection"
     \/ o.name = "closePeer" /\ o.mode = "data"
     \/ o.name = "onconnectionstatechange" /\ o.mode = "data"
                                           /\ o.data \in {"closed", "failed"}
     \/ o.name = "onclose" /\ o.label = "default"

AbsentFromData(S, id) ==
  /\ ~Has(S.dc, id)
  /\ ~Has(S.dch, id)
  /\ ~Has(S.ds, id)
  /\ ~Has(S.dic, id)
  /\ ~Has(S.did, id)

TornDown ==
  ClosesData(op') =>
    LET id == op'.id
        h  == Get(dataConnections, id)
        cs == Values(Get(dataChannels, id))
    IN /\ Len(calls') = Len(cs) + 1
       /\ \A i \in 1..Len(cs) :
            calls'[i].fn = "chan.close" /\ calls'[i].c = cs[i]
       /\ calls'[Len(cs) + 1].fn = "conn.close"
       /\ calls'[Len(cs) + 1].h = h
       /\ conns'[h].closed
       /\ AbsentFromData(Nxt, id)
       /\ id \notin Range(getPeers(Nxt))
       /\ getPeerChannels(Nxt, id) = <<>>
       /\ \A l \in Labels : getChannelData(Nxt, id, l) = <<"undefined">>
       /\ ~raised'

\* C3: closeDataConnection(id) on a registered DATA connection calls close()
\* on every channel registered for id, one by one, and only then close() on
\* the connection; afterwards id is absent from the connection map, channel
\* map, payload cache, candidate map and done-flag map, getPeers() does not
\* list id, getPeerChannels(id) is empty and getChannelData(id, label) is
\* undefined for every label.
C3_CloseDataConnectionTearsDown == [][TornDown]_vars

\* A close of a connection that had two channels registered.
C3_Witness ==
  /\ op.name = "closeDataConnection"
  /\ op.pre
  /\ Len(calls) = 3
  /\ calls[3].fn = "conn.close"

DefaultChannel(S, id) == Get(Get(S.dch, id), "default")

HasDefault ==
  \A id \in KeySet(dataConnections) :
    /\ doesPeerChannelExist(Cur, id, "default")
    /\ chans[DefaultChannel(Cur, id)].label = "default"
    /\ chans[DefaultChannel(Cur, id)].conn = Get(dataConnections, id)
    /\ chans[DefaultChannel(Cur, id)].ordered
    /\ chans[DefaultChannel(Cur, id)].negotiated

\* C4: in every state the blocks can reach, every DATA connection of the
\* registry has a channel labelled 'default' in its channel map, and that
\* channel was created on that connection, ordered and pre-negotiated; so it
\* is from the state in which getDataConnection returns for a new id.
C4_DefaultChannelExists == HasDefault

\* The state right after newPeer created a DATA connection.
C4_Witness ==
  /\ op.name = "newPeer"
  /\ op.mode = "data"
  /\ ~op.pre
  /\ Has(dataConnections, op.id)
  /\ getPeerChannels(Cur, op.id) = <<"default">>

DefaultClosed ==
  (op'.name = "onclose" /\ op'.label = "default") =>
    /\ AbsentFromData(Nxt, op'.id)
    /\ fired' = <<[id |-> op'.id, kind |-> "channel-close", s |-> "default", n |-> 0],
                  [id |-> op'.id, kind |-> "closed", s |-> "", n |-> 0]>>

CloseDefaultPending ==
  (op'.name = "closeChannel" /\ op'.label = "default" /\ op'.pre) =>
    LET c == DefaultChannel(Cur, op'.id)
    IN /\ chans'[c].state = "closing"
       /\ chans'[c].hooked
       /\ chans'[c].id = op'.id
       /\ chans'[c].label = "default"

\* C5: when the close event of a channel registered as 'default' is
\* delivered, the handler removes the id from all five DATA maps and
\* publishes {id}_closed after {id}_channel-close; and the registry's
\* closeChannel(id, 'default') leaves that channel closing with its close
\* handler installed, so that this event is what follows.
C5_DefaultCloseRemovesConnection ==
  [][DefaultClosed /\ CloseDefaultPending]_vars

\* The default channel of a registered connection has just closed.
C5_Witness ==
  /\ op.name = "onclose"
  /\ op.label = "default"
  /\ op.pre
  /\ AbsentFromData(Cur, op.id)
  /\ Len(fired) = 2

DefaultRefused ==
  (op'.name = "closeChannelBlock" /\ op'.label = "default") =>
    /\ Registry' = Registry
    /\ Engine' = Engine
    /\ calls' = <<>>
    /\ fired' = <<>>
    /\ ~raised'

DefaultStays ==
  \A id \in KeySet(dataConnections) :
    (Has(dataConnections', id)
       /\ Get(dataConnections', id) = Get(dataConnections, id)
       /\ op'.name \notin {"newPeer", "getDataConnection"})
    => /\ doesPeerChannelExist(Nxt, id, "default")
       /\ DefaultChannel(Nxt, id) = DefaultChannel(Cur, id)
       /\ chans'[DefaultChannel(Cur, id)].state \in {"connecting", "open"}

\* C6: the closeChannel block called with channel 'default' changes nothing:
\* no native call is made, no map and no native object changes; and as long
\* as the blocks leave a connection registered, its default channel stays
\* registered and is not closed.
C6_CloseChannelBlockRefusesDefault == [][DefaultRefused /\ DefaultStays]_vars

\* The block was called for the default channel of a registered peer.
C6_Witness ==
  /\ op.name = "closeChannelBlock"
  /\ op.label = "default"
  /\ op.pre
  /\ Has(dataConnections, op.id)
  /\ chans[DefaultChannel(Cur, op.id)].state = "open"

\* C7: after the createChannel block ran for a registered peer and a label
\* not in use, doesPeerChannelExist(id, label) is true and the label is
\* listed by getPeerChannels(id).
C7_CreatedChannelIsRegistered ==
  (op.name = "createChannel" /\ op.pre) =>
    /\ doesPeerChannelExist(Cur, op.id, op.label)
    /\ op.label \in Range(getPeerChannels(Cur, op.id))

ChannelClosed ==
  (op'.name \in {"closeChannel", "closeChannelBlock"}
     /\ op'.label # "default" /\ op'.pre) =>
    LET id == op'.id
        l  == op'.label
        c  == Get(Get(dataChannels, id), l)
    IN /\ calls' = <<[fn |-> "chan.close", h |-> chans[c].conn, c |-> c, s |-> l,
                      x |-> Null]>>
       /\ chans'[c].state \notin {"connecting", "open"}
       /\ ~doesPeerChannelExist(Nxt, id, l)
       /\ l \notin Range(getPeerChannels(Nxt, id))
       /\ getChannelData(Nxt, id, l) = <<"undefined">>
       /\ \A k \in Labels \ {l} :
            /\ doesPeerChannelExist(Nxt, id, k) = doesPeerChannelExist(Cur, id, k)
            /\ getChannelData(Nxt, id, k) = getChannelData(Cur, id, k)
            /\ doesPeerChannelExist(Cur, id, k) =>
                 /\ Get(Get(dataChannels', id), k) = Get(Get(dataChannels, id), k)
                 /\ chans'[Get(Get(dataChannels, id), k)]
                      = chans[Get(Get(dataChannels, id), k)]
       /\ KeySet(Get(dataStorage', id)) = KeySet(Get(dataStorage, id)) \ {l}
       /\ <<dataConnections, dataIceCandidates, dataIceDone>>'
            = <<dataConnections, dataIceCandidates, dataIceDone>>
       /\ <<voiceConnections, voiceStreams, voiceIceCandidates, voiceIceDone>>'
            = <<voiceConnections, voiceStreams, voiceIceCandidates, voiceIceDone>>
       /\ conns' = conns
       /\ fired' = <<>>
       /\ ~raised'

\* C8: closeChannel(id, label) on a registered channel other than 'default'
\* calls close() on that channel and removes it and its cached payload: the
\* label is no longer listed by getPeerChannels(id), doesPeerChannelExist(id,
\* label) is false and getChannelData(id, label) is undefined; the connection,
\* every other channel of id and every other cached payload stay as they were.
C8_CloseChannelRemovesOnlyThatChannel == [][ChannelClosed]_vars

\* A non-default channel was closed while the default channel holds a payload.
C8_Witness ==
  /\ op.name = "closeChannel"
  /\ op.label = "audio"
  /\ op.pre
  /\ getPeerChannels(Cur, op.id) = <<"default">>
  /\ getChannelData(Cur, op.id, "default") = <<"data", "x">>

DoneFlags(S, mode) == IF mode = "data" THEN S.did ELSE S.vid
Conns(S, mode)     == IF mode = "data" THEN S.dc ELSE S.vc

\* The done flag of the connection registered for (mode, id), if any.
Done(S, mode, id) == Has(Conns(S, mode), id) /\ Get(DoneFlags(S, mode), id)

FalseAtCreation ==
  (op'.name \in {"getDataConnection", "getVoiceConnection", "newPeer"}
     /\ ~op'.pre /\ Has(Conns(Nxt, op'.mode), op'.id)) =>
    /\ ~Done(Nxt, op'.mode, op'.id)
    /\ op'.mode = "data" => ~doneGatheringIce(Nxt, op'.id)

TrueOnlyOnComplete ==
  \A m \in Modes, id \in Ids :
    (Done(Nxt, m, id) /\ ~Done(Cur, m, id)) =>
      /\ op'.name = "onicecomplete"
      /\ op'.mode = m
      /\ op'.id = id
      /\ op'.h = Get(Conns(Cur, m), id)
      /\ conns'[op'.h].gather = "complete"

NeverReverts ==
  \A m \in Modes, id \in Ids :
    (Done(Cur, m, id) /\ Has(Conns(Nxt, m), id)
       /\ Get(Conns(Nxt, m), id) = Get(Conns(Cur, m), id))
    => Done(Nxt, m, id)

C9_PeersAreOpenDataIds ==
  /\ Range(getPeers(Cur)) = OpenDataIds
  /\ Cardinality(Range(getPeers(Cur))) = Len(getPeers(Cur))
  /\ blockAllPeers(Cur) = getPeers(Cur)

\* One data peer listed while the other id has a voice connection only.
C9_Witness ==
  /\ getPeers(Cur) = <<"bob">>
  /\ Has(voiceConnections, "amy")
  /\ Open(Get(voiceConnections, "amy"))

\* Connections of both modes under one id, with candidate gathering; of the
\* engine's state reports, those that tear a connection down.
IceNext ==
  \/ DoGetDataConnection("bob")
  \/ \E setup \in BOOLEAN : DoGetVoiceConnection("bob", setup)
  \/ DoCloseDataConnection("bob")
  \/ DoCloseVoiceConnection("bob")
  \/ \E h \in Handles : MicGranted(h)
  \/ \E h \in Handles : MicDenied(h)
  \/ \E h \in Handles : OnIceCandidate(h)
  \/ \E h \in Handles : OnIceComplete(h)
  \/ \E h \in Handles, s \in {"failed", "closed"} : OnConnectionStateChange(h, s)
  \/ \E c \in Channels : OnChannelClose(c)

IceSpec == Init /\ [][IceNext]_vars

\* DATA peers of two ids made and closed by the blocks, next to VOICE
\* connections of the same ids.
ListNext ==
  \/ \E id \in Ids : BlockNewPeer(id, "data")
  \/ \E id \in Ids : DoGetVoiceConnection(id, FALSE)
  \/ \E id \in Ids, m \in Modes : BlockClosePeer(id, m)
  \/ \E h \in Handles, s \in Reports : OnConnectionStateChange(h, s)
  \/ \E c \in Channels : OnChannelClose(c)

ListSpec == Init /\ [][ListNext]_vars

\* One data connection whose channels receive messages of both payloads.
MsgNext ==
  \/ DoGetDataConnection("bob")
  \/ DoCloseDataConnection("bob")
  \/ \E l \in Labels : DoCloseChannel("bob", l)
  \/ \E h \in Handles, s \in Reports : OnConnectionStateChange(h, s)
  \/ \E h \in Handles, l \in Labels : OnDataChannel(h, l, TRUE)
  \/ \E c \in Channels : OnChannelOpen(c)
  \/ \E c \in Channels, d \in Data : OnMessage(c, d)
  \/ \E c \in Channels : OnChannelClose(c)

MsgSpec == Init /\ [][MsgNext]_vars

Undefined == <<"undefined">>

LastMessageCached ==
  (op'.name = "onmessage" /\ Has(dataStorage, op'.id)) =>
    /\ ~raised'
    /\ getChannelData(Nxt, op'.id, op'.label) = <<"data", op'.data>>
    /\ blockGetData(Nxt, op'.id, op'.label) = <<"data", op'.data>>

OnlyMessagesCache ==
  \A id \in Ids, l \in Labels :
    getChannelData(Nxt, id, l) # getChannelData(Cur, id, l) =>
      \/ getChannelData(Nxt, id, l) = Undefined
      \/ /\ op'.name = "onmessage"
         /\ op'.id = id
         /\ op'.label = l
         /\ getChannelData(Nxt, id, l) = <<"data", op'.data>>

NothingAtCreation ==
  (op'.name = "getDataConnection" /\ ~op'.pre) =>
    \A l \in Labels : getChannelData(Nxt, op'.id, l) = Undefined

NothingForUnknownPeer ==
  \A id \in Ids, l \in Labels :
    ~Has(dataConnections, id) => getChannelData(Cur, id, l) = Undefined

\* C11: getChannelData(id, label) is the payload of the last message
\* delivered for (id, label): a message overwrites the cached payload, no
\* other step sets one, a new connection starts with none, and for an id
\* without a connection the result is undefined for every label.
C11_ChannelDataIsLastMessage ==
  /\ []NothingForUnknownPeer
  /\ [][LastMessageCached /\ OnlyMessagesCache /\ NothingAtCreation]_vars

\* A second message has replaced the payload cached for a label.
C11_Witness ==
  /\ op.name = "onmessage"
  /\ op.data = "y"
  /\ getChannelData(Cur, "bob", op.label) = <<"data", "y">>
  /\ getChannelData(Cur, "bob", "default") # Undefined
  /\ getChannelData(Cur, "bob", "audio") # Undefined

\* The data methods that address a (peer, label) pair, called with and
\* without the peer and the label being registered.
PathNext ==
  \/ DoGetDataConnection("bob")
  \/ DoCloseDataConnection("bob")
  \/ \E l \in Labels, o \in BOOLEAN : DoCreateDataChannel("bob", l, o)
  \/ \E l \in Labels : DoCloseChannel("bob", l)
  \/ \E l \in Labels, w \in BOOLEAN :
       Dry("bob", l, w) /\ DoSendData("bob", l, "x", w)
  \/ \E l \in Labels, w \in BOOLEAN :
       Dry("bob", l, w) /\ BlockSendData("bob", l, "x", w)
  \/ \E h \in Handles, s \in Reports : OnConnectionStateChange(h, s)
  \/ \E h \in Handles, l \in Labels : OnDataChannel(h, l, TRUE)
  \/ \E c \in Channels : OnChannelOpen(c)
  \/ \E c \in Channels : OnChannelClose(c)

PathSpec == Init /\ [][PathNext]_vars

\* A step of a data-path mutator whose peer or label is not registered.
AbsentKey(o) ==
  \/ o.name \in {"sendData", "sendDataBlock", "closeChannel"}
       /\ ~doesPeerChannelExist(Cur, o.id, o.label)
  \/ o.name = "createDataChannel" /\ ~Has(dataConnections, o.id)

SilentNoOp ==
  AbsentKey(op') =>
    /\ Registry' = Registry
    /\ Engine' = Engine
    /\ ret' = <<"void">>
    /\ calls' = <<>>
    /\ fired' = <<>>
    /\ ~raised'

AbsentKeyReturnsState ==
  \A id \in Ids, l \in Labels, w \in BOOLEAN :
    /\ ~doesPeerChannelExist(Cur, id, l) =>
         /\ sendData(Cur, id, l, "x", w) = Cur
         /\ closeChannel(Cur, id, l) = Cur
    /\ ~Has(dataConnections, id) => createDataChannel(Cur, id, l, w) = Cur

\* C12: sendData for a (peer, label) pair that is not registered,
\* closeChannel for an absent peer or label and createDataChannel for an
\* absent peer return undefined, make no native call (nothing is sent, no
\* connection or channel is constructed), publish nothing, raise nothing and
\* leave every map unchanged.
C12_AbsentKeyIsSilentNoOp ==
  []AbsentKeyReturnsState /\ [][SilentNoOp]_vars

\* A send to a label that is not registered on a registered, connected peer.
C12_Witness ==
  /\ op.name = "sendData"
  /\ Has(dataConnections, op.id)
  /\ isPeerConnected(Cur, op.id)
  /\ ~doesPeerChannelExist(Cur, op.id, op.label)
  /\ calls = <<>>

Queries ==
  {"getPeers", "getConnectedPeers", "getPeerChannels", "isPeerConnected",
   "doesPeerChannelExist", "doneGatheringIce", "allIceCandidates"}

\* Connections of both modes for 'bob' and none for 'amy', with the queries
\* called for both ids in every state.
QueryNext ==
  \/ DoGetDataConnection("bob")
  \/ DoGetVoiceConnection("bob", FALSE)
  \/ DoCloseDataConnection("bob")
  \/ DoCloseVoiceConnection("bob")
  \/ \E h \in Handles : OnIceCandidate(h)
  \/ \E h \in Handles : OnIceComplete(h)
  \/ \E h \in Handles, s \in Reports : OnConnectionStateChange(h, s)
  \/ \E q \in {"getPeers", "getConnectedPeers"} : DoQuery(q, "", "", 0)
  \/ \E q \in {"getPeerChannels", "isPeerConnected", "doneGatheringIce"},
        id \in Ids : DoQuery(q, id, "", 0)
  \/ \E id \in Ids, l \in Labels : DoQuery("doesPeerChannelExist", id, l, 0)
  \/ \E id \in Ids, m \in 0..2 : DoQuery("allIceCandidates", id, "", m)

QuerySpec == Init /\ [][QueryNext]_vars

QueryIsPure ==
  op'.name \in Queries =>
    /\ Registry' = Registry
    /\ Engine' = Engine
    /\ configuration' = configuration
    /\ calls' = <<>>
    /\ fired' = <<>>
    /\ ~raised'

EmptyForAbsent ==
  /\ dataConnections = <<>> =>
       getPeers(Cur) = <<>> /\ getConnectedPeers(Cur) = <<>>
  /\ \A id \in Ids :
       ~Has(dataConnections, id) =>
         /\ getPeerChannels(Cur, id) = <<>>
         /\ isPeerConnected(Cur, id) = FALSE
         /\ doneGatheringIce(Cur, id) = FALSE
         /\ allIceCandidates(Cur, id, 0) = <<>>
         /\ \A l \in Labels : doesPeerChannelExist(Cur, id, l) = FALSE
  /\ \A id \in Ids :
       /\ ~Has(voiceConnections, id) => allIceCandidates(Cur, id, 1) = <<>>
       /\ allIceCandidates(Cur, id, 2) = <<>>
  /\ \A id \in Ids, l \in Labels :
       (Has(dataChannels, id) /\ l \notin KeySet(Get(dataChannels, id)))
         => doesPeerChannelExist(Cur, id, l) = FALSE

AbsentReturns ==
  (op.name \in Queries \ {"getPeers", "getConnectedPeers"}
     /\ ~Has(ConnMap(IF op.name = "allIceCandidates" /\ op.c = 1
                     THEN "voice" ELSE "data"), op.id))
    => ret \in {<<"list", <<>>>>, <<"bool", FALSE>>}

\* C13: a call of getPeers, getConnectedPeers, getPeerChannels,
\* isPeerConnected, doesPeerChannelExist, doneGatheringIce or allIceCandidates
\* changes no map, no native object and the configuration not, makes no native
\* call, publishes nothing and raises nothing; for an id or label that is not
\* registered the result is the empty list or false.
C13_QueriesArePure ==
  [](EmptyForAbsent /\ AbsentReturns) /\ [][QueryIsPure]_vars

\* A query for a peer that is not registered, while another peer is.
C13_Witness ==
  /\ op.name = "getPeerChannels"
  /\ op.id = "amy"
  /\ ret = <<"list", <<>>>>
  /\ Has(dataConnections, "bob")
  /\ doneGatheringIce(Cur, "bob")

\* C14: whenever the engine reports state closed or failed on a registered
\* connection of either mode, the handler removes the connection with all
\* its auxiliary state and publishes {id}_closed.
C14_ClosedOrFailedTearsDownAndPublishes ==
  (op.name = "onconnectionstatechange"
     /\ op.data \in {"closed", "failed"} /\ op.pre) =>
    /\ IF op.mode = "data"
       THEN AbsentFromData(Cur, op.id)
       ELSE /\ ~Has(voiceConnections, op.id)
            /\ ~Has(voiceStreams, op.id)
            /\ ~Has(voiceIceCandidates, op.id)
            /\ ~Has(voiceIceDone, op.id)
    /\ \E i \in 1..Len(fired) : fired[i].id = op.id /\ fired[i].kind = "closed"


\* The handshake methods on one key of each mode, with every mode value and
\* setup flag a caller can pass, every native step the engine may reject,
\* and the calls and events that remove the connection again.
ModeNos == {0, 1, 2}
Setups == {"undefined", "true", "false"}
RemoteOffer  == [type |-> "offer", sdp |-> <<"remote", 0>>]
RemoteAnswer == [type |-> "answer", sdp |-> <<"remote", 0>>]
RemoteCandidate == Candidate(<<99, 58, 49>>, Str(<<48>>), Num(0), Null)

\* The setup flag only matters in voice mode.
SetupsOf(m) == IF m = 1 THEN Setups ELSE {"true"}

\* The scenario has one connection under test at a time, and one microphone
\* request in flight at a time.
OneAtATime(m, s) ==
  /\ (m = 0) => (voiceConnections = <<>> /\ mic = {})
  /\ (m = 1) => (dataConnections = <<>>)
  /\ (m = 1 /\ s = "true") => (mic = {})

ShakeNext ==
  \/ \E m \in ModeNos, f \in 0..2 : \E s \in SetupsOf(m) :
       OneAtATime(m, s) /\ DoCreateOffer("bob", m, s, f)
  \/ \E m \in ModeNos, f \in 0..3 : \E s \in SetupsOf(m) :
       OneAtATime(m, s) /\ DoCreateAnswer("bob", m, RemoteOffer, s, f)
  \/ \E m \in ModeNos, f \in 0..1 :
       OneAtATime(m, "") /\ DoHandleAnswer("bob", m, RemoteAnswer, f)
  \/ \E m \in ModeNos, f \in 0..1 : \E s \in SetupsOf(m) :
       OneAtATime(m, s) /\ DoHandleIceCandidate("bob", m, RemoteCandidate, s, f)
  \/ DoCloseDataConnection("bob")
  \/ DoCloseVoiceConnection("bob")
  \/ \E h \in Handles : MicGranted(h)
  \/ \E h \in Handles : MicDenied(h)

ShakeSpec == Init /\ [][ShakeNext]_vars

HandshakeNames ==
  {"createOffer", "createAnswer", "handleAnswer", "handleIceCandidate"}

\* A call that cannot succeed: the mode value is invalid, the setup flag is
\* missing in voice mode, or the engine rejects the native step o.h.
BadCall(o) == o.c \notin {0, 1} \/ (o.c = 1 /\ o.label = "undefined")
Fails(o) == BadCall(o) \/ o.h # 0

\* No handshake method, and no resumed rest of one, raises.
NothingEscapes ==
  op'.name \in HandshakeNames \cup {"micGranted", "micDenied"} => ~raised'

\* A failing call that ran to its end returned nothing, and so did the rest
\* of a call that resumed after getUserMedia and then failed.
FailureReturnsNothing ==
  /\ (op'.name \in HandshakeNames /\ Fails(op') /\ ret'[1] # "pending")
       => ret' = <<"void">>
  /\ (op'.name \in {"micGranted", "micDenied"}
        /\ conns[op'.h].after.fn # ""
        /\ (conns[op'.h].after.fail # 0 \/ op'.name = "micDenied"))
       => ret' = <<"void">>

\* An invalid mode or a missing setup flag is noticed before anything is
\* looked up or constructed.
BadCallChangesNothing ==
  (op'.name \in HandshakeNames /\ BadCall(op')) =>
    /\ Registry' = Registry
    /\ Engine' = Engine
    /\ calls' = <<>>

\* A connection registered for the key is still registered under the same
\* handle afterwards, open, with its channels and its maps as they were.
RegisteredStaysIntact ==
  (op'.name \in HandshakeNames /\ op'.pre) =>
    LET h == Get(ConnMap(op'.mode), op'.id) IN
    /\ Registry' = Registry
    /\ chans' = chans
    /\ mic' = mic
    /\ ~conns'[h].closed
    /\ conns'[h].state = conns[h].state

\* C19: createOffer, createAnswer, handleAnswer and handleIceCandidate never
\* raise: when the engine rejects a native step, the mode value is invalid
\* or the voice setup flag is missing, the call returns nothing, and a
\* connection already registered for the key stays registered and open with
\* its maps and channels unchanged.
C19_HandshakeFailuresAreAbsorbed ==
  [][/\ NothingEscapes
     /\ FailureReturnsNothing
     /\ BadCallChangesNothing
     /\ RegisteredStaysIntact]_vars

\* createAnswer on a registered connection: the engine took the remote
\* offer and then rejected the createAnswer step.
C19_Witness ==
  /\ op.name = "createAnswer"
  /\ op.h = 2
  /\ op.pre
  /\ ret = <<"void">>
  /\ Has(ConnMap(op.mode), op.id)
  /\ conns[Get(ConnMap(op.mode), op.id)].remote = RemoteOffer
  /\ ~conns[Get(ConnMap(op.mode), op.id)].closed

\* The values the blocks encode.  A session description as createOffer and
\* createAnswer resolve it: its type and its sdp text, here over a letter, a
\* line feed, the two characters JSON escapes and a character above 0x7F.
SdpChars == {118, 10, 34, 92, 233}

RECURSIVE Texts(_)
Texts(n) ==
  IF n = 0 THEN {<<>>}
  ELSE Texts(n - 1) \cup {Append(s, c) : s \in Texts(n - 1), c \in SdpChars}

Description(type, sdp) ==
  Obj(<<Member(<<116, 121, 112, 101>>, Str(type)),
        Member(<<115, 100, 112>>, Str(sdp))>>)

Descriptions ==
  {Description(ty, sdp) :
     ty \in {<<111, 102, 102, 101, 114>>, <<97, 110, 115, 119, 101, 114>>},
     sdp \in Texts(MaxLen)}

Candidates ==
  {Candidate(c, m[1], m[2], m[3]) :
     c \in {<<>>, <<99, 58, 49>>},
     m \in {<<Null, Null, Null>>, <<Str(<<48>>), Num(0), Null>>,
            <<Str(<<49>>), Num(10), Str(<<47, 43>>)>>}}

RECURSIVE Lists(_)
Lists(n) ==
  IF n = 0 THEN {<<>>}
  ELSE Lists(n - 1) \cup {Append(l, c) : l \in Lists(n - 1), c \in Candidates}

CandidateLists == {Arr(l) : l \in Lists(MaxList)}



\* The encoding and the decoding applied to every such value.
CodecInit ==
  /\ dataConnections = <<>>
  /\ dataChannels = <<>>
  /\ dataStorage = <<>>
  /\ dataIceCandidates = <<>>
  /\ dataIceDone = <<>>
  /\ voiceConnections = <<>>
  /\ voiceStreams = <<>>
  /\ voiceIceCandidates = <<>>
  /\ voiceIceDone = <<>>
  /\ configuration = DefaultConfiguration
  /\ conns = [h \in 1..MaxHandles |-> FreeConn]
  /\ chans = [c \in 1..MaxChans |-> FreeChan]
  /\ mic = {}
  /\ dom = <<>>
  /\ nstreams = 0
  /\ eventHandlers = <<>>
  /\ polls = <<>>
  /\ heard = <<>>
  /\ seen = <<>>
  /\ tally = 0
  /\ \E x \in Descriptions \cup CandidateLists :
       op = [Op("value") EXCEPT !.data = x]
  /\ ret = <<"void">>
  /\ fired = <<>>
  /\ calls = <<>>
  /\ raised = FALSE
  /\ far = Fresh
  /\ wire = NoWire

Encode ==
  /\ op.name = "value"
  /\ op' = [op EXCEPT !.name = "encode"]
  /\ ret' = <<"text", encode(op.data).v>>
  /\ raised' = ~encode(op.data).ok
  /\ UNCHANGED <<Registry, Engine, Bus, configuration, fired, calls, far, wire>>

Decode ==
  /\ op.name = "encode"
  /\ ~raised
  /\ op' = [op EXCEPT !.name = "decode"]
  /\ ret' = <<"value", decode(ret[2]).v>>
  /\ raised' = ~decode(ret[2]).ok
  /\ UNCHANGED <<Registry, Engine, Bus, configuration, fired, calls, far, wire>>

CodecNext == Encode \/ Decode

CodecSpec == CodecInit /\ [][CodecNext]_vars

\* C16: the text produced by btoa(JSON.stringify(x)) for a session
\* description or a candidate list x decodes, by JSON.parse(atob(text)), to
\* a value equal to x, the candidates of a list in their order; neither step
\* throws.
C16_WireEncodingRoundTrips ==
  /\ op.name = "encode" => ~raised
  /\ op.name = "decode" => (~raised /\ ret = <<"value", op.data>>)

\* A decoded list of two different candidates.
C16_Witness ==
  /\ op.name = "decode"
  /\ op.data.t = "arr"
  /\ Len(op.data.m) = 2
  /\ op.data.m[1] # op.data.m[2]
  /\ ret[2].m[1] = op.data.m[1]
  /\ ret[2].m[2] = op.data.m[2]

\* Remote answers and remote candidates, singly and as lists on the wire,
\* arriving before and after the connection they are meant for exists.
RemoteCandidates ==
  {Candidate(<<99, 58, 49>>, Str(<<48>>), Num(0), Null),
   Candidate(<<99, 58, 50>>, Str(<<48>>), Num(0), Null)}

RECURSIVE RemoteLists(_)
RemoteLists(n) ==
  IF n = 0 THEN {<<>>}
  ELSE RemoteLists(n - 1)
       \cup {Append(l, c) : l \in RemoteLists(n - 1), c \in RemoteCandidates}

NoRepeat(l) == \A i, j \in 1..Len(l) : l[i] = l[j] => i = j

IceTexts == {encode(Arr(l)).v : l \in {k \in RemoteLists(MaxList) : NoRepeat(k)}}

LateNext ==
  \/ \E m \in Modes, ice \in IceTexts, f \in 0..1 :
       OneAtATime(SwitchMode(m), "true") /\ BlockHandleIce("bob", m, ice, f)
  \/ \E m \in {0, 1}, f \in 0..1 :
       OneAtATime(m, "") /\ DoHandleAnswer("bob", m, RemoteAnswer, f)
  \/ \E m \in {0, 1}, c \in RemoteCandidates : \E s \in SetupsOf(m) :
       OneAtATime(m, s) /\ DoHandleIceCandidate("bob", m, c, s, 0)
  \/ \E m \in {0, 1} :
       OneAtATime(m, "false") /\ DoCreateAnswer("bob", m, RemoteOffer, "false", 0)
  \/ DoCloseDataConnection("bob")
  \/ DoCloseVoiceConnection("bob")
  \/ \E h \in Handles : MicGranted(h)
  \/ \E h \in Handles : MicDenied(h)

LateSpec == Init /\ [][LateNext]_vars

\* C17: handleAnswer, handleIceCandidate or handleIce for a (mode, id) key
\* that has no connection raises nothing and leaves the registry as it was:
\* afterwards the key has no connection, no channel map, no payload map, no
\* candidate list and no gathering flag.
C17_LateAnswerOrIceChangesNothing ==
  (op.name \in {"handleAnswer", "handleIceCandidate", "handleIce"}
     /\ op.c \in {0, 1} /\ ~op.pre) =>
    /\ ~raised
    /\ IF op.c = 0
       THEN AbsentFromData(Cur, op.id)
       ELSE /\ ~Has(voiceConnections, op.id)
            /\ ~Has(voiceStreams, op.id)
            /\ ~Has(voiceIceCandidates, op.id)
            /\ ~Has(voiceIceDone, op.id)

\* The candidates handed to addIceCandidate in a step, in the order of the
\* calls.
IsAdd(c) == c.fn = "addIceCandidate"
AddedBy(cs) == [i \in 1..Len(SelectSeq(cs, IsAdd)) |-> SelectSeq(cs, IsAdd)[i].x]

IsPrefix(s, l) == Len(s) <= Len(l) /\ s = SubSeq(l, 1, Len(s))

\* C18: when handleIce has run, the candidates handed to addIceCandidate so
\* far are the first candidates of the received list, in the order of the
\* list: none is added while one before it in the list is still to be
\* added, in either mode, also when the call had to create the connection.
C18_CandidatesAddedInListOrder ==
  op.name = "handleIce" =>
    IsPrefix(AddedBy(calls), ForIn(decode(op.data).v))

\* ------------------------------------------------------------- two peers
\* The signaling flow between this program, which knows its peer as "bob",
\* and the program of that peer, which knows this one as "amy".  The caller
\* on each side hands what its program returns to the caller on the other
\* side.  The engines gather once a local description is set, and connect
\* once both descriptions and all candidates of both sides are exchanged.
FarCur == [far EXCEPT !.ret = <<"void">>, !.fired = <<>>, !.calls = <<>>,
                      !.heard = <<>>, !.seen = <<>>, !.raised = FALSE]

\* A step of the remote program alone.
FarCommit(S0, o) ==
  /\ \E T \in {S0} : far' = [Normal(T) EXCEPT !.op = o]
  /\ UNCHANGED <<Registry, Engine, Bus, configuration, op, ret, fired, calls,
                 raised>>

Described(S, id) == IF Has(S.dc, id) THEN S.conns[Get(S.dc, id)]
                    ELSE FreeConn

\* The application here may ask for trickled candidates before it starts.
PairTrickle ==
  /\ ~Has(dataConnections, "bob")
  /\ ~configuration.supportsTrickleIce
  /\ DoSupportsTrickeIce(TRUE)

\* createOffer('bob', 'bob', DATA) here; the offer goes to the peer.
PairCreateOffer ==
  /\ ~Has(dataConnections, "bob")
  /\ wire.offer = NoDesc
  /\ \E S \in {createOffer(Cur, "bob", "bob", 0, "undefined", 0)} :
        /\ Store(S, HandshakeOp("createOffer", "bob", 0, "undefined", 0))
        /\ wire' = [wire EXCEPT
                      !.offer = IF S.ret[1] = "desc" THEN S.ret[2] ELSE @]
  /\ far' = far

\* createAnswer with that offer at the peer; the answer comes back.
PairCreateAnswer ==
  /\ wire.offer # NoDesc
  /\ ~Has(far.dc, "amy")
  /\ \E S \in {createAnswer(FarCur, "amy", "amy", 0, wire.offer,
                            "undefined", 0)} :
        /\ FarCommit(S, [Op("createAnswer") EXCEPT !.id = "amy",
                                                    !.mode = "data"])
        /\ wire' = [wire EXCEPT
                      !.answer = IF S.ret[1] = "desc" THEN S.ret[2] ELSE @]

\* handleAnswer with that answer here.
PairHandleAnswer ==
  /\ wire.answer # NoDesc
  /\ Described(Cur, "bob").sig = "have-local-offer"
  /\ Commit(handleAnswer(Cur, "bob", 0, wire.answer, 0),
            HandshakeOp("handleAnswer", "bob", 0, "undefined", 0))

\* Gathering, here and at the peer.
PairIceCandidate ==
  \E h \in Handles : conns[h].local # NoDesc /\ OnIceCandidate(h)

PairIceComplete ==
  \E h \in Handles : conns[h].local # NoDesc /\ OnIceComplete(h)

FarIceCandidate ==
  \E h \in Handles :
    /\ ~far.conns[h].closed
    /\ far.conns[h].local # NoDesc
    /\ far.conns[h].gather # "complete"
    /\ far.conns[h].ncand < MaxCands
    /\ FarCommit(onicecandidate([FarCur EXCEPT !.conns[h].gather = "gathering",
                                               !.conns[h].ncand = @ + 1],
                                h, far.conns[h].ncand + 1),
                 [Op("onicecandidate") EXCEPT !.id = far.conns[h].id,
                                              !.mode = far.conns[h].mode,
                                              !.h = h])
    /\ UNCHANGED wire

FarIceComplete ==
  \E h \in Handles :
    /\ ~far.conns[h].closed
    /\ far.conns[h].local # NoDesc
    /\ far.conns[h].gather # "complete"
    /\ FarCommit(onicecandidate([FarCur EXCEPT !.conns[h].gather = "complete"],
                                h, 0),
                 [Op("onicecomplete") EXCEPT !.id = far.conns[h].id,
                                             !.mode = far.conns[h].mode,
                                             !.h = h])
    /\ UNCHANGED wire

\* Once a side has gathered, the other side applies its candidates, one
\* handleIceCandidate after the other, in their order.
PairApplyHere ==
  LET cs == allIceCandidates(FarCur, "amy", 0)
      n  == Len(Described(Cur, "bob").added)
  IN /\ doneGatheringIce(FarCur, "amy")
     /\ Described(Cur, "bob").remote # NoDesc
     /\ n < Len(cs)
     /\ Commit(handleIceCandidate(Cur, "bob", 0, Num(cs[n + 1]), "undefined", 0),
               HandshakeOp("handleIceCandidate", "bob", 0, "undefined", 0))

PairApplyThere ==
  LET cs == allIceCandidates(Cur, "bob", 0)
      n  == Len(Described(far, "amy").added)
  IN /\ doneGatheringIce(Cur, "bob")
     /\ Described(far, "amy").remote # NoDesc
     /\ n < Len(cs)
     /\ FarCommit(handleIceCandidate(FarCur, "amy", 0, Num(cs[n + 1]),
                                     "undefined", 0),
                  [Op("handleIceCandidate") EXCEPT !.id = "amy",
                                                   !.mode = "data"])
     /\ UNCHANGED wire

\* The engines have all they need from each other.
Exchanged ==
  LET a == Described(Cur, "bob")
      b == Described(far, "amy")
  IN /\ a.local # NoDesc /\ b.local # NoDesc
     /\ a.remote = b.local /\ b.remote = a.local
     /\ a.gather = "complete" /\ b.gather = "complete"
     /\ Len(a.added) = b.ncand /\ \A i \in 1..b.ncand : a.added[i] = Num(i)
     /\ Len(b.added) = a.ncand /\ \A i \in 1..a.ncand : b.added[i] = Num(i)

PairConnectsHere ==
  \E h \in Handles :
    /\ Exchanged
    /\ conns[h].state = "new"
    /\ OnConnectionStateChange(h, "connected")

PairConnectsThere ==
  \E h \in Handles :
    /\ Exchanged
    /\ ~far.conns[h].closed
    /\ far.conns[h].state = "new"
    /\ FarCommit(onconnectionstatechange([FarCur EXCEPT
                                            !.conns[h].state = "connected"], h),
                 [Op("onconnectionstatechange") EXCEPT
                    !.id = far.conns[h].id, !.mode = far.conns[h].mode,
                    !.h = h, !.data = "connected"])
    /\ UNCHANGED wire

PairNext ==
  \/ PairTrickle
  \/ PairCreateOffer
  \/ PairCreateAnswer
  \/ PairHandleAnswer
  \/ PairIceCandidate
  \/ PairIceComplete
  \/ FarIceCandidate
  \/ FarIceComplete
  \/ PairApplyHere
  \/ PairApplyThere
  \/ PairConnectsHere
  \/ PairConnectsThere

\* Callers and engines that do not stop half way.
PairSpec == Init /\ [][PairNext]_vars /\ WF_vars(PairNext)

BothConnected ==
  /\ isPeerConnected(Cur, "bob")
  /\ isPeerConnected(far, "amy")

\* The step in which a side becomes connected publishes {id}_connected.
ConnectedIsPublished ==
  /\ (~isPeerConnected(Cur, "bob") /\ isPeerConnected(Nxt, "bob")) =>
       \E i \in 1..Len(fired') :
         fired'[i].id = "bob" /\ fired'[i].kind = "connected"
  /\ (~isPeerConnected(far, "amy") /\ isPeerConnected(far', "amy")) =>
       \E i \in 1..Len(far'.fired) :
         far'.fired[i].id = "amy" /\ far'.fired[i].kind = "connected"

\* C15: createOffer('bob', 'bob', DATA) here, createAnswer with that offer
\* at the peer, handleAnswer with the peer's answer here, then each side
\* applying the other's candidates once the other has gathered them: with
\* engines that connect once descriptions and candidates are exchanged,
\* both sides eventually report the peer connected, and each publishes
\* {id}_connected when it does.
C15_HandshakeConnectsBothSides ==
  <>BothConnected /\ [][ConnectedIsPublished]_vars

\* Both sides connected after a handshake in which candidates went both
\* ways.
C15_Witness ==
  /\ BothConnected
  /\ Exchanged
  /\ Described(Cur, "bob").added # <<>>
  /\ Described(far, "amy").added # <<>>

\* C20: when getVoiceConnection(id, true) created the connection and the
\* microphone request fails, no voice state remains for id and the caller
\* of getVoiceConnection gets no connection: the call raises or returns
\* something else.
C20_MicFailureIsSurfaced ==
  op.name = "micDenied" =>
    /\ ~Has(voiceConnections, op.id)
    /\ ~Has(voiceStreams, op.id)
    /\ ~Has(voiceIceCandidates, op.id)
    /\ ~Has(voiceIceDone, op.id)
    /\ (raised \/ ret[1] # "conn")

\* ------------------------------------------------------------ the event bus
\* Topics that are a prefix or an extension of one another, and a wildcard.
Topics == {"bob_message", "bob_mess", "bob_message_x", "bob_*"}
Callbacks == {"f", "g"}

BusNext ==
  \/ \E e \in Topics, cb \in Callbacks : DoOn(e, cb)
  \/ \E e \in Topics, s \in Data, n \in 0..1 : DoFire(e, s, n)

BusSpec == Init /\ [][BusNext]_vars

\* The callbacks registered for a topic, in registration order.
Subs(eh, e) == IF Has(eh, e) THEN Get(eh, e) ELSE <<>>

OnAppends ==
  op'.name = "on" =>
    /\ \A e \in Topics :
         Subs(eventHandlers', e) =
           IF e = op'.id THEN Append(Subs(eventHandlers, e), op'.label)
           ELSE Subs(eventHandlers, e)
    /\ heard' = <<>>

FireInvokesExactly ==
  op'.name = "fire" =>
    /\ Len(heard') = Len(Subs(eventHandlers, op'.id))
    /\ \A i \in 1..Len(heard') :
         heard'[i] = [cb |-> Subs(eventHandlers, op'.id)[i], topic |-> op'.id,
                      s |-> op'.data, n |-> op'.c]
    /\ \A e \in Topics : Subs(eventHandlers', e) = Subs(eventHandlers, e)
    /\ ~raised'

\* C23: on(topic, cb) appends cb to the callbacks of that topic and of no
\* other, also when it is registered already; fire(topic, args) invokes,
\* within the call, exactly the callbacks registered for that very topic
\* string, each as often as it was registered, in registration order, with
\* the arguments given, and no callback of another topic (not of a prefix, an
\* extension or a wildcard); with no callback registered it invokes nothing.
C23_FireInvokesSubscribersInOrder ==
  [][OnAppends /\ FireInvokesExactly]_vars

\* A fire that invoked one callback twice and then another, while a prefix
\* of the topic has a callback of its own.
C23_Witness ==
  /\ op.name = "fire" /\ op.id = "bob_message"
  /\ Len(heard) = 2
  /\ heard[1].cb = "f" /\ heard[2].cb = "f"
  /\ Subs(eventHandlers, "bob_mess") # <<>>

\* ------------------------------------------------- messages and subscribers
\* One data connection whose channels receive messages, with callbacks
\* registered for its messages and for those of another id.
HearNext ==
  \/ DoGetDataConnection("bob")
  \/ DoCloseDataConnection("bob")
  \/ \E h \in Handles : OnConnectionStateChange(h, "connected")
  \/ \E h \in Handles : OnDataChannel(h, "audio", TRUE)
  \/ \E c \in Channels : OnChannelOpen(c)
  \/ \E c \in Channels, d \in Data : OnMessage(c, d)
  \/ \E c \in Channels : OnChannelClose(c)
  \/ \E e \in {"bob_message", "amy_message"} : DoOn(e, "f")

HearSpec == Init /\ [][HearNext]_vars

Invocations(cbs, e, s, n) ==
  [i \in 1..Len(cbs) |-> [cb |-> cbs[i], topic |-> e, s |-> s, n |-> n]]

IsMessage(f) == f.kind = "message"

MessagePublished ==
  (op'.name = "onmessage" /\ Has(dataStorage, op'.id)) =>
    /\ ~raised'
    /\ getChannelData(Nxt, op'.id, op'.label) = <<"data", op'.data>>
    /\ fired' = <<[id |-> op'.id, kind |-> "message", s |-> op'.data, n |-> 0]>>
    /\ heard' = Invocations(Subs(eventHandlers, Topic(op'.id, "message")),
                            Topic(op'.id, "message"), op'.data, 0)

OnlyMessagesPublish ==
  op'.name # "onmessage" => SelectSeq(fired', IsMessage) = <<>>

\* C24: every message received on a channel whose handlers the registry
\* bound, while its connection is registered, overwrites the payload cached
\* for (id, label) and publishes {id}_message once with that payload, in the
\* step of its receipt: every callback registered for {id}_message is
\* invoked once per registration with it, and no other step publishes
\* {id}_message.
C24_EveryMessageIsPublished ==
  [][MessagePublished /\ OnlyMessagesPublish]_vars

\* A second message on a label reached the subscriber of the connection's
\* messages and replaced the cached payload of the first.
C24_Witness ==
  /\ op.name = "onmessage" /\ op.id = "bob" /\ op.data = "y"
  /\ heard = <<[cb |-> "f", topic |-> "bob_message", s |-> "y", n |-> 0]>>
  /\ getChannelData(Cur, "bob", op.label) = <<"data", "y">>
  /\ Has(eventHandlers, "amy_message")
  /\ \E l \in Labels \ {op.label} :
       getChannelData(Cur, "bob", l) = <<"data", "x">>

\* ------------------------------------------------ configuration and trickle
\* Connections of both modes made under one configuration and gathering
\* under another.
TrickleNext ==
  \/ DoGetDataConnection("bob")
  \/ DoGetVoiceConnection("bob", FALSE)
  \/ DoCloseDataConnection("bob")
  \/ \E m \in BOOLEAN : DoRelayOnly(m)
  \/ \E m \in BOOLEAN : DoSupportsTrickeIce(m)
  \/ \E h \in Handles : OnIceCandidate(h)
  \/ \E h \in Handles : OnIceComplete(h)

TrickleSpec == Init /\ [][TrickleNext]_vars

IsIce(f) == f.kind = "ice"

\* C22: whether {id}_ice is published for a candidate discovered on a data
\* connection is decided by the trickle flag the configuration had when the
\* connection was created, whatever the flag is by the time of the
\* discovery.
C22_TrickleFlagIsCapturedAtCreation ==
  (op.name = "onicecandidate" /\ op.mode = "data") =>
    (SelectSeq(fired, IsIce) # <<>> <=> conns[op.h].cfg.supportsTrickleIce)

\* C25: with trickle mode enabled every candidate the engine discovers for a
\* connection, of either mode, publishes {id}_ice with that candidate in the
\* step of its discovery; with trickle mode disabled no step publishes
\* {id}_ice.
C25_TrickleFiresIcePerCandidate ==
  /\ (op.name = "onicecandidate" /\ configuration.supportsTrickleIce) =>
       SelectSeq(fired, IsIce) =
         <<[id |-> op.id, kind |-> "ice", s |-> "", n |-> op.c]>>
  /\ ~configuration.supportsTrickleIce => SelectSeq(fired, IsIce) = <<>>

IsIceDone(f) == f.kind = "ice-done"

\* C26: the step in which the engine reports the gathering of a connection,
\* of either mode, finished leaves the done flag of its id true and
\* publishes {id}_ice-done once; no other step publishes it.
C26_IceDoneFiresOncePerConnection ==
  /\ op.name = "onicecomplete" =>
       /\ Done(Cur, op.mode, op.id)
       /\ Len(SelectSeq(fired, IsIceDone)) = 1
  /\ op.name # "onicecomplete" => SelectSeq(fired, IsIceDone) = <<>>

\* ------------------------------------------------------- connection states
\* A data and a voice connection of one id whose transports come up, drop
\* and recover.
StateNext ==
  \/ DoGetDataConnection("bob")
  \/ DoGetVoiceConnection("bob", FALSE)
  \/ DoCloseDataConnection("bob")
  \/ DoCloseVoiceConnection("bob")
  \/ \E h \in Handles, s \in Reports \cup {"disconnected"} :
       OnConnectionStateChange(h, s)

StateSpec == Init /\ [][StateNext]_vars

IsConnected(f) == f.kind = "connected"

BecomesConnected == op'.name = "onconnectionstatechange" /\ op'.data = "connected"

DataConnectedPublishes ==
  (BecomesConnected /\ op'.mode = "data") =>
    fired' = <<[id |-> op'.id, kind |-> "connected", s |-> "", n |-> 0]>>

OnlyDataConnectedPublishes ==
  ~(BecomesConnected /\ op'.mode = "data") =>
    SelectSeq(fired', IsConnected) = <<>>

C30_HandleAnswerAppliesInBothModes ==
  (op.name = "handleAnswer" /\ op.pre /\ op.c \in {0, 1}) =>
    \E i \in 1..Len(calls) :
      /\ calls[i].fn = "setRemoteDescription"
      /\ calls[i].h = Get(ConnMap(op.mode), op.id)
      /\ calls[i].s = "answer"

\* ------------------------------------------------ labels through the blocks
\* handleDataChannel hooks the negotiated 'default' channel and the channels
\* the remote peer announced; what createDataChannel returns is never hooked.
Announced(c) == ~chans[c].negotiated /\ chans[c].hooked

LiveChannel(c) == chans[c].state \in {"connecting", "open"}

\* The createChannel block returns before it creates anything.
Refused(peer, channel) == doesPeerChannelExist(Cur, peer, channel)

\* C28: driven through the blocks, the createChannel block is refused for the
\* label of every channel this side created on a connection and that is not
\* closed, so that no second live channel of that label can be created.
C28_BlocksKeepLabelsUnique ==
  \A c \in Channels :
    (/\ LiveChannel(c)
     /\ ~Announced(c)
     /\ chans[c].conn # 0
     /\ Has(dataConnections, chans[c].id)
     /\ Get(dataConnections, chans[c].id) = chans[c].conn) =>
      Refused(chans[c].id, chans[c].label)
\* -------------------------------------------------- waiting for the gathering
\* generateIce blocks for a registered and for an unregistered peer while
\* the connection is created, gathers, completes and is closed.
WaitNext ==
  \/ DoGetDataConnection("bob")
  \/ DoCloseDataConnection("bob")
  \/ \E h \in Handles : OnIceCandidate(h)
  \/ \E h \in Handles : OnIceComplete(h)
  \/ \E p \in Ids : BlockGenerateIce(p)
  \/ OnTimeout

WaitSpec == Init /\ [][WaitNext]_vars

Polling == op'.name \in {"generateIce", "timeout"}

\* The step resolves the wait it polled for.
Resolves == Polling /\ ret' = <<"void">>

ResolvesOnlyWhenDone ==
  Resolves => /\ doneGatheringIce(Cur, op'.id)
              /\ doneGatheringIce(Nxt, op'.id)

\* A poll that finds the gathering unfinished keeps its wait, behind the
\* waits that were there; a poll that resolves takes its own wait away.
PollKeepsOrResolves ==
  /\ op'.name = "generateIce" =>
       polls' = IF Resolves THEN polls ELSE Append(polls, op'.id)
  /\ op'.name = "timeout" =>
       polls' = IF Resolves THEN Tail(polls) ELSE Append(Tail(polls), op'.id)

\* A poll changes nothing but the waits, and no other step touches them.
PollingDoesNotInterfere ==
  /\ Polling => (Registry' = Registry /\ Engine' = Engine
                  /\ fired' = <<>> /\ calls' = <<>> /\ ~raised')
  /\ ~Polling => polls' = polls

\* C27: the wait of generateIce(peer) resolves only in a step that finds
\* doneGatheringIce(peer) true, never while the peer is unregistered or still
\* gathering; until then it stays pending and polls again on a timer, and
\* every other operation runs between two polls and leaves the wait alone.
C27_WaitResolvesOnlyWhenGatheringDone ==
  [][ResolvesOnlyWhenDone /\ PollKeepsOrResolves /\ PollingDoesNotInterfere]_vars

\* A wait that was pending while the gathering went on is resolved by a
\* later poll, while the wait for an unregistered peer is still pending.
C27_Witness ==
  /\ op.name = "timeout"
  /\ ret = <<"void">>
  /\ op.id = "bob"
  /\ polls = <<"amy">>

\* --------------------------------------------------------- two keys at once
\* Everything the program and the engine hold for the key id: its entries in
\* the nine maps, the native connections and channels made for it, and its
\* microphone requests.
EntryOf(m, k) == IF Has(m, k) THEN <<Get(m, k)>> ELSE <<>>

Footprint(S, id) ==
  [dc |-> EntryOf(S.dc, id), dch |-> EntryOf(S.dch, id),
   ds |-> EntryOf(S.ds, id), dic |-> EntryOf(S.dic, id),
   did |-> EntryOf(S.did, id), vc |-> EntryOf(S.vc, id),
   vs |-> EntryOf(S.vs, id), vic |-> EntryOf(S.vic, id),
   vid |-> EntryOf(S.vid, id),
   conns |-> [h \in Handles |->
                IF S.conns[h].id = id THEN S.conns[h] ELSE FreeConn],
   chans |-> [c \in Channels |->
                IF S.chans[c].id = id THEN S.chans[c] ELSE FreeChan],
   mic |-> {h \in S.mic : S.conns[h].id = id}]

\* Calls, handshake steps and engine events for the keys 'bob' and 'amy',
\* interleaved.  Bob's data connection makes an offer, gathers candidates and
\* finishes gathering; amy's data connection receives messages and her voice
\* connection is refused the microphone; every connection may come up, and
\* amy's channels open and close.
Of(h, id) == conns[h].id = id

FrameNext ==
  \/ \E id \in Ids : DoGetDataConnection(id)
  \/ DoCloseDataConnection("bob")
  \/ DoGetVoiceConnection("amy", TRUE)
  \/ DoCreateOffer("bob", 0, "true", 0)
  \/ \E h \in Handles : MicDenied(h)
  \/ \E h \in Handles : Of(h, "bob") /\ OnIceCandidate(h)
  \/ \E h \in Handles : Of(h, "bob") /\ OnIceComplete(h)
  \/ \E h \in Handles : OnConnectionStateChange(h, "connected")
  \/ \E c \in Channels : chans[c].id = "amy" /\ OnMessage(c, "x")
  \/ \E c \in Channels : chans[c].id = "amy" /\ OnChannelOpen(c)
  \/ \E c \in Channels : chans[c].id = "amy" /\ OnChannelClose(c)

FrameSpec == Init /\ [][FrameNext]_vars

\* C21: a call, a handshake step, an engine event or a microphone failure
\* for one key leaves everything held for every other key as it was: its
\* connections, channel map, payload cache, candidates and done flags.
C21_OtherKeysAreUntouched ==
  [][\A S \in {Cur}, T \in {Nxt} :
       \A id \in Ids \ {op'.id} : Footprint(T, id) = Footprint(S, id)]_vars

\* A microphone failure tore down amy's voice connection while bob has a
\* connected data connection with a local offer and a finished gathering.
C21_Witness ==
  /\ op.name = "micDenied"
  /\ op.id = "amy"
  /\ ~Has(voiceConnections, "amy")
  /\ isPeerConnected(Cur, "bob")
  /\ doneGatheringIce(Cur, "bob")
  /\ Get(dataIceCandidates, "bob") # <<>>
  /\ conns[Get(dataConnections, "bob")].sig = "have-local-offer"
\* ------------------------------------------------------ playback elements
\* One voice connection, with or without a microphone, that receives track
\* events and is closed by the caller or by the engine.
TrackNext ==
  \/ \E setup \in BOOLEAN : DoGetVoiceConnection("bob", setup)
  \/ DoCloseVoiceConnection("bob")
  \/ \E h \in Handles : MicGranted(h)
  \/ \E h \in Handles : MicDenied(h)
  \/ \E h \in Handles, n \in 1..2 : OnTrack(h, n)
  \/ \E h \in Handles, s \in Reports : OnConnectionStateChange(h, s)

TrackSpec == Init /\ [][TrackNext]_vars

\* The playback elements attached for the streams in ss.
Playing(d, ss) == {i \in 1..Len(d) : d[i].stream \in Range(ss)}

\* C31: closeVoiceConnection(id) leaves no playback element attached that
\* was attached for a stream of that connection.
C31_CloseDetachesPlayback ==
  [][(op'.name = "closeVoiceConnection" /\ Has(voiceStreams, op'.id)) =>
       Playing(dom', Get(voiceStreams, op'.id)) = {}]_vars

\* ------------------------------------------------------- the maps' key sets
\* C32: in every state the five maps of the data registry hold the same ids,
\* and so do the four maps of the voice registry.
C32_RegistryKeySetsAgree ==
  /\ KeySet(dataChannels) = KeySet(dataConnections)
  /\ KeySet(dataStorage) = KeySet(dataConnections)
  /\ KeySet(dataIceCandidates) = KeySet(dataConnections)
  /\ KeySet(dataIceDone) = KeySet(dataConnections)
  /\ KeySet(voiceStreams) = KeySet(voiceConnections)
  /\ KeySet(voiceIceCandidates) = KeySet(voiceConnections)
  /\ KeySet(voiceIceDone) = KeySet(voiceConnections)

\* A refused microphone removed the voice connection from all four voice maps
\* while the data connection of the same id has gathered its candidates.
C32_Witness ==
  /\ op.name = "micDenied"
  /\ op.pre
  /\ KeySet(voiceConnections) = {}
  /\ KeySet(dataConnections) = {"bob"}
  /\ doneGatheringIce(Cur, "bob")

\* ------------------------------------------------------- late callbacks
\* The step is a callback of a connection that is no longer the one the
\* registry holds under its id: a newer connection took its place.
Superseded(m, id, h) == Has(m, id) /\ Get(m, id) # h

LateCallback ==
  \/ /\ op'.name = "onclose"
     /\ Superseded(dataConnections, op'.id, op'.h)
  \/ /\ op'.name = "onconnectionstatechange"
     /\ Superseded(ConnMap(op'.mode), op'.id, op'.h)
  \/ /\ op'.name = "micDenied"
     /\ Superseded(voiceConnections, op'.id, op'.h)

\* C33: a late callback of a connection that was removed from the registry
\* leaves the newer connection registered under the same id as it is.
C33_LateCallbackSparesNewerConnection ==
  [][LateCallback =>
       /\ Registry' = Registry
       /\ \A h \in Handles : conns'[h].closed = conns[h].closed]_vars

\* --------------------------------------------- subscribers of {id}_ice-done
\* One data connection that gathers and completes while callbacks, one of
\* which throws, are registered for its {id}_ice-done.
DoneNext ==
  \/ DoGetDataConnection("bob")
  \/ DoCloseDataConnection("bob")
  \/ \E h \in Handles : OnIceCandidate(h)
  \/ \E h \in Handles : OnIceComplete(h)
  \/ \E cb \in {"f", "boom"} : DoOn("bob_ice-done", cb)

DoneSpec == Init /\ [][DoneNext]_vars

\* The registry as the i-th callback of the last step found it.
AsSeen(i) == [Cur EXCEPT !.did = seen[i].did, !.dic = seen[i].dic]

\* C34: when the engine reports the end of gathering on a data connection,
\* every callback of {id}_ice-done runs with doneGatheringIce(id) true and
\* allIceCandidates(id, DATA) the complete list, and the done flag is true
\* after the step, also when a callback threw.
C34_IceDoneSubscribersSeeCompletion ==
  (op.name = "onicecomplete" /\ op.mode = "data") =>
    /\ \A i \in 1..Len(heard) :
         heard[i].topic = Topic(op.id, "ice-done") =>
           /\ doneGatheringIce(AsSeen(i), op.id)
           /\ allIceCandidates(AsSeen(i), op.id, 0) = Get(dataIceCandidates, op.id)
    /\ doneGatheringIce(Cur, op.id)

\* ------------------------------------------------- {id}_closed, how often
\* A subscriber that counts is registered for bob_closed while bob's data
\* connection is registered and no channel of an earlier connection is left;
\* from then on no connection is created, so every notification it counts
\* belongs to that one connection.  The connection is then torn down by the
\* engine's state, by the close of its default channel or by the caller.
OnlyLife ==
  /\ Has(dataConnections, "bob")
  /\ \A c \in Channels :
       ~IsFreeChan(Cur, c) => chans[c].conn = Get(dataConnections, "bob")

LifeNext ==
  \/ eventHandlers = <<>> /\ DoGetDataConnection("bob")
  \/ eventHandlers = <<>> /\ OnlyLife /\ DoOn("bob_closed", "count")
  \/ BlockClosePeer("bob", "data")
  \/ \E h \in Handles, s \in Reports : OnConnectionStateChange(h, s)
  \/ \E c \in Channels : OnChannelOpen(c)
  \/ \E c \in Channels : OnMessage(c, "x")
  \/ \E c \in Channels : OnChannelClose(c)
  \/ \E h \in Handles : OnIceCandidate(h)
  \/ \E h \in Handles : OnIceComplete(h)

LifeSpec == Init /\ [][LifeNext]_vars

\* C35: the subscriber of {id}_closed is notified at most once for the
\* connection it watches, however that connection is torn down.
C35_ClosedIsPublishedOnce == tally <= 1

\* ---------------------------------------------- callbacks after the teardown
\* One data connection whose channel receives messages, also while it is
\* closing after its connection was torn down.
StrayNext ==
  \/ DoGetDataConnection("bob")
  \/ DoCloseDataConnection("bob")
  \/ \E h \in Handles, s \in Reports : OnConnectionStateChange(h, s)
  \/ \E h \in Handles : OnIceCandidate(h)
  \/ \E c \in Channels : OnChannelOpen(c)
  \/ \E c \in Channels : OnMessage(c, "x")
  \/ \E c \in Channels : OnMessageClosing(c, "x")
  \/ \E c \in Channels : OnChannelClose(c)

StraySpec == Init /\ [][StrayNext]_vars

\* C36: a message, candidate or track callback of a connection that is no
\* longer registered raises no error and leaves the registry as it is.
C36_StrayCallbackIsHarmless ==
  [][(/\ op'.name \in {"onmessage", "onicecandidate", "ontrack"}
      /\ ~Has(ConnMap(IF op'.name = "ontrack" THEN "voice" ELSE "data"),
              op'.id)) =>
       (~raised' /\ Registry' = Registry)]_vars

\* ------------------------------------------------ the mode of the handshake
\* The handshake blocks in both modes on one peer, the microphone, and the
\* calls that remove the connections again.
ModeNext ==
  \/ \E m \in Modes : BlockCreateOffer("bob", m, 0)
  \/ \E m \in Modes : BlockCreateAnswer("bob", m, RemoteOffer, 0)
  \/ \E m \in Modes : BlockHandleAnswer("bob", m, RemoteAnswer, 0)
  \/ \E m \in Modes : BlockHandleIce("bob", m, encode(Arr(<<RemoteCandidate>>)).v, 0)
  \/ DoCloseDataConnection("bob")
  \/ DoCloseVoiceConnection("bob")
  \/ \E h \in Handles : MicGranted(h)
  \/ \E h \in Handles : MicDenied(h)

ModeSpec == Init /\ [][ModeNext]_vars

DataRegistry == <<dataConnections, dataChannels, dataStorage,
                  dataIceCandidates, dataIceDone>>

VoiceRegistry == <<voiceConnections, voiceStreams, voiceIceCandidates,
                   voiceIceDone>>

HandshakeBlocks ==
  {"createOfferBlock", "createAnswerBlock", "handleAnswerBlock", "handleIce"}

\* C37: a handshake block called with mode 'voice' leaves the DATA registry
\* as it is and makes its native calls on voice connections only; called
\* with mode 'data' it leaves the VOICE registry as it is and makes its
\* native calls on data connections only.
C37_HandshakeBlocksKeepToTheirMode ==
  [][(op'.name \in HandshakeBlocks /\ op'.mode \in Modes) =>
       /\ op'.mode = "voice" => DataRegistry' = DataRegistry
       /\ op'.mode = "data" => VoiceRegistry' = VoiceRegistry
       /\ \A i \in 1..Len(calls') :
            conns'[calls'[i].h].mode = op'.mode]_vars

\* ------------------------------------------------------- sends that wait
\* One data connection whose channels are sent to through the block, with
\* and without waiting, while the engine drains their buffers.
DrainNext ==
  \/ DoGetDataConnection("bob")
  \/ BlockClosePeer("bob", "data")
  \/ \E h \in Handles : OnConnectionStateChange(h, "connected")
  \/ \E h \in Handles : OnDataChannel(h, "chat", TRUE)
  \/ \E c \in Channels : OnChannelOpen(c)
  \/ \E l \in {"default", "chat"}, d \in {"x", ""}, w \in BOOLEAN :
       BlockSendData("bob", l, d, w)
  \/ \E c \in Channels : OnBufferedAmountLow(c)
  \/ \E c \in Channels : OnChannelClose(c)

DrainSpec == Init /\ [][DrainNext]_vars

\* A promise of a wait-mode send on the channel has not been resolved.
Waiting(c) == chans[c].low \/ chans[c].lost

\* C38: once the buffer of a channel has drained, no promise that a
\* wait-mode send on that channel returned is still pending, also when a
\* second wait-mode send was issued before the first had resolved.
C38_WaitingSendsResolveOnDrain ==
  [][\A c \in Channels :
       (op'.name = "onbufferedamountlow" /\ op'.c = c) => ~Waiting(c)']_vars

\* ----------------------------------------------------- the end of the wait
\* The scenario of WaitSpec with a timer that always expires and an engine
\* that completes every gathering it is left to complete.
WaitFairSpec ==
  /\ Init /\ [][WaitNext]_vars
  /\ WF_vars(OnTimeout)
  /\ WF_vars(\E h \in Handles : OnIceComplete(h))

\* The caller keeps starting waits or creating connections.
KeepsCalling == []<>(op.name \in {"generateIce", "getDataConnection"})

\* C39: every wait of generateIce ends, whether the gathering completes, the
\* connection is closed before or after it completed, or the peer never
\* existed: unless the caller keeps starting waits or creating connections,
\* from some point on no wait polls any more.
C39_EveryWaitEnds == KeepsCalling \/ <>[](polls = <<>>)

\* ------------------------------------------------- the 'default' channel
\* The channel registered for a peer under the label 'default' is the one
\* that getDataConnection negotiated.
DefaultIsNegotiated ==
  \A i \in 1..Len(dataChannels) :
    Has(dataChannels[i][2], "default") =>
      chans[Get(dataChannels[i][2], "default")].negotiated

\* C40: the 'default' entry of a peer's channel map always refers to the
\* pre-negotiated channel, and a channel announced in-band under a label
\* that is already registered leaves the channel maps as they are.
C40_AnnouncedChannelNeverReplaces ==
  [][/\ DefaultIsNegotiated'
     /\ (op'.name = "ondatachannel" /\ op'.pre) =>
          dataChannels' = dataChannels]_vars

====
